---- MODULE Spec2Model ----
(***************************************************************************)
(* Client-side security envelope of Cryptee (frontend utils/crypto.js,     *)
(* services/api.js, context/AuthContext.js).                               *)
(*                                                                         *)
(* Keys are numbers: Null is JavaScript null/undefined, EmptyKey is the    *)
(* empty string "", 1..NumCallerKeys are passphrases a caller may choose,  *)
(* and the n-th draw of CryptoJS.lib.WordArray.random(32) is the key       *)
(* NumCallerKeys + n: two draws of the 256-bit random source are taken to  *)
(* be different keys.                                                      *)
(*                                                                         *)
(* A text is a sequence of tokens (strings).  A ciphertext is symbolic: it *)
(* records the key and the text it was produced from; decrypting it under  *)
(* another key yields bytes the cipher does not control, drawn from        *)
(* GarbageOutcomes (AES-CBC carries no integrity check).                   *)
(***************************************************************************)
EXTENDS Integers, Sequences, FiniteSets, Bags, TLC

\* ---------------------------------------------------------------- bounds
\* keys generateEncryptionKey hands out in one run
MaxKeys == 2
\* passphrases a caller can choose by itself
NumCallerKeys == 1
\* encryptFile promises that can be pending at once
MaxCalls == 2
\* files dropped on the offline encryption page in one run
MaxDrops == 2
\* dot-separated labels in the host of a URL handed to analyzeUrl
MaxLabels == 4
\* space-separated words in the text of a scanned file
MaxWords == 2
\* segments in the name of a file handed to processFile
MaxParts == 3
\* files dropped on the upload page in one run
MaxUploads == 3
\* requests a client has under way through its api instance at once
MaxRequests == 2

\* ----------------------------------------------------------------- state
VARIABLES
    sessionKey,      \* module variable sessionKey of crypto.js
    nextKey,         \* number of the next draw of the random source
    getsSinceReset,  \* history: keys getSessionKey returned since the last reset
    getCount,        \* history: getSessionKey calls since the last reset (0, 1, many)
    oldGets,         \* history: keys getSessionKey returned before the last reset
    lastEnv,         \* the envelope produced last, with the call that made it
    lastResult,      \* outcome of the last decrypt or failed call
    calls,           \* encryptFile promises waiting for their FileReader
    loginPc,         \* AuthProvider.login: "idle" or "awaiting" the backend
    logoutPc,        \* AuthProvider.logout: "idle", "awaiting", "resolved", "rejected"
    logoutBackendOk, \* history: whether the backend logout request succeeded
    user,            \* AuthProvider user state
    tokens,          \* access_token / refresh_token present in localStorage
    server,          \* what the backend stores for each uploaded file
    lastDownload,    \* outcome of the last filesAPI.downloadFile
    cin,             \* codec harness: the inputs under test
    cmade,           \* codec harness: what produced cenv
    cenv,            \* codec harness: the envelope / ciphertext under test
    cout,            \* codec harness: the outcome of the decrypting call
    files,           \* OfflineEncryption: the file list (id and status of each)
    processing,      \* OfflineEncryption: a batch run is under way
    progress,        \* OfflineEncryption: percentage shown by the progress bar
    password,        \* OfflineEncryption: the password field
    mode,            \* OfflineEncryption: "encrypt" or "decrypt"
    error,           \* OfflineEncryption: the error alert ("" when hidden)
    success,         \* OfflineEncryption: the success alert ("" when hidden)
    nextId,          \* OfflineEncryption: the id onDrop gives the next file
    updatedFiles,    \* processAllFiles: its local copy of the list
    loopI,           \* processAllFiles: 1 + its loop index i (0 when not running)
    runMode,         \* processAllFiles: the mode its closure captured
    scanFile,        \* scanner: the file handed to scanFileForThreats
    scanPc,          \* scanner: "idle", "reading", "scanned" or "caught"
    scanContent,     \* scanner: what readFileContent resolved with
    scanResult,      \* scanner: what scanFileForThreats resolved with
    urlIn,           \* analyzeUrl harness: the URL under test
    urlOut,          \* analyzeUrl harness: the analysis returned
    nameIn,          \* file-name harness: the name of the file under test
    nameOut,         \* file-name harness: the processed name and how it was made
    uploadedFiles,   \* FileUpload: the file list (id and status of each)
    uploading,       \* FileUpload: the uploading flag
    uploadProgress,  \* FileUpload: percentage shown for each file id
    pendingFiles,    \* uploadAllFiles: the pending files it filtered at its start
    upI,             \* uploadAllFiles: 1 + its loop index (0 when not running)
    upNextId,        \* FileUpload: the id onDrop gives the next file
    uploadCalls,     \* history: the ids filesAPI.uploadFile was called with
    platform,        \* api client: "web" or "mobile"
    storage,         \* api client: the tokens in localStorage / AsyncStorage
    reqPc,           \* api requests: where each request and its interceptor are
    retry,           \* api requests: originalRequest._retry of each
    sends,           \* history: times each request was put on the wire
    refreshes,       \* history: POST /auth/refresh calls made for each request
    lastStatus       \* api requests: status of the response each received last

keyVars == <<sessionKey, nextKey, getsSinceReset, getCount, oldGets>>
envVars == <<lastEnv, lastResult>>
authVars == <<loginPc, logoutPc, logoutBackendOk, user, tokens>>
xferVars == <<server, lastDownload>>
codecVars == <<cin, cmade, cenv, cout>>
cryptoVars == <<keyVars, envVars, calls, authVars, xferVars, codecVars>>
batchVars == <<files, processing, progress, password, mode, error, success,
               nextId, updatedFiles, loopI, runMode>>
scanVars == <<scanFile, scanPc, scanContent, scanResult>>
urlVars == <<urlIn, urlOut>>
\* what the crypto module, the offline batch and the scanner leave alone
nameVars == <<nameIn, nameOut>>
uploadVars == <<uploadedFiles, uploading, uploadProgress, pendingFiles, upI,
                upNextId, uploadCalls>>
apiVars == <<platform, storage, reqPc, retry, sends, refreshes, lastStatus>>
pageVars == <<nameVars, uploadVars, apiVars>>
sideVars == <<batchVars, scanVars, urlVars, pageVars>>
notBatchVars == <<cryptoVars, scanVars, urlVars, pageVars>>
notScanVars == <<cryptoVars, batchVars, pageVars>>
coreVars == <<cryptoVars, batchVars, scanVars, urlVars>>
vars == <<coreVars, pageVars>>

\* ------------------------------------------------------------------ keys
Null == -1
EmptyKey == 0
CallerKeys == 1..NumCallerKeys
FirstGenKey == NumCallerKeys + 1
LastGenKey == NumCallerKeys + MaxKeys

\* JavaScript truthiness of a key: null, undefined and "" are falsy
Falsy(k) == k \in {Null, EmptyKey}

\* generateEncryptionKey(): the n-th draw of the random source
generateEncryptionKey(n) == n

\* ---------------------------------------------------------------- values
Quote == "\""
VNull == [t |-> "null", v |-> "null"]
VStr(s) == [t |-> "str", v |-> s]
VNum(s) == [t |-> "num", v |-> s]
VBool(s) == [t |-> "bool", v |-> s]
NumTokens == {"0", "7", "-5"}
BoolTokens == {"true", "false"}
StrTokens == {"", "7", "null", "secret"}

\* JSON values (what JSON.parse can return)
JSONValues ==
    {VNull} \cup {VBool(b) : b \in BoolTokens} \cup {VNum(n) : n \in NumTokens}
            \cup {VStr(s) : s \in StrTokens}
\* a JavaScript value that is not a JSON value
VNaN == VNum("NaN")

\* outcome of an operation: a returned value or a thrown Error(message)
Ok(val) == [ok |-> TRUE, val |-> val]
Err(msg) == [ok |-> FALSE, val |-> [t |-> "error", v |-> msg]]

\* variant: strings are written without their quotes
JSONstringify_unquoted(x) ==
    CASE x.t = "str" -> <<x.v>>
      [] x.t = "num" -> IF x.v = "NaN" THEN <<"null">> ELSE <<x.v>>
      [] x.t = "bool" -> <<x.v>>
      [] OTHER -> <<"null">>

\* JSON.stringify
JSONstringify(x) ==
    CASE x.t = "str" -> <<Quote, x.v, Quote>>
      [] x.t = "num" -> IF x.v = "NaN" THEN <<"null">> ELSE <<x.v>>
      [] x.t = "bool" -> <<x.v>>
      [] OTHER -> <<"null">>

\* JSON.parse: a value, or SyntaxError
JSONparse(text) ==
    IF text = <<"null">> THEN Ok(VNull)
    ELSE IF Len(text) = 1 /\ text[1] \in BoolTokens THEN Ok(VBool(text[1]))
    ELSE IF Len(text) = 1 /\ text[1] \in NumTokens THEN Ok(VNum(text[1]))
    ELSE IF Len(text) = 3 /\ text[1] = Quote /\ text[3] = Quote
         THEN Ok(VStr(text[2]))
    ELSE Err("SyntaxError")

\* --------------------------------------------------------------- strings
\* JavaScript strings are TLA+ strings; a character is a string of length 1
CharAt(s, i) == SubSeq(s, i, i)
Chars(s) == {CharAt(s, i) : i \in 1..Len(s)}
\* s.substring(i - 1, j), cut at the end of s
Slice(s, i, j) == SubSeq(s, i, IF j > Len(s) THEN Len(s) ELSE j)
StartsWith(s, p) == Slice(s, 1, Len(p)) = p
EndsWith(s, p) == Len(p) <= Len(s) /\ SubSeq(s, Len(s) - Len(p) + 1, Len(s)) = p
Includes(s, p) == \E i \in 1..(Len(s) - Len(p) + 1) : SubSeq(s, i, i + Len(p) - 1) = p

UpperCase == "ABCDEFGHIJKLMNOPQRSTUVWXYZ"
LowerCase == "abcdefghijklmnopqrstuvwxyz"
Digits == "0123456789"
UpperCaseLetters == Chars(UpperCase)
Letters == Chars(UpperCase) \cup Chars(LowerCase)
DigitChars == Chars(Digits)
IsLetter(c) == c \in Letters
IsDigit(c) == c \in DigitChars
Lower(c) ==
    IF c \in UpperCaseLetters
    THEN CharAt(LowerCase, CHOOSE i \in 1..Len(UpperCase) : CharAt(UpperCase, i) = c)
    ELSE c

RECURSIVE toLowerCase(_)
toLowerCase(s) == IF s = "" THEN "" ELSE Lower(Head(s)) \o toLowerCase(Tail(s))

\* s.split(sep) for a one-character separator
RECURSIVE Split(_, _)
Split(s, sep) ==
    IF \E i \in 1..Len(s) : CharAt(s, i) = sep
    THEN LET i == CHOOSE i \in 1..Len(s) :
                      /\ CharAt(s, i) = sep
                      /\ \A j \in 1..(i - 1) : CharAt(s, j) # sep
         IN  <<SubSeq(s, 1, i - 1)>> \o Split(SubSeq(s, i + 1, Len(s)), sep)
    ELSE <<s>>

\* parts.join(sep)
RECURSIVE Join(_, _)
Join(parts, sep) ==
    IF parts = <<>> THEN ""
    ELSE IF Len(parts) = 1 THEN parts[1]
    ELSE parts[1] \o sep \o Join(Tail(parts), sep)

Last(seq) == seq[Len(seq)]
\* the elements of a sequence
Range(seq) == {seq[i] : i \in DOMAIN seq}

\* -------------------------------------------- phishingPatterns (file scanner)
suspiciousTlds ==
    <<".tk", ".ml", ".ga", ".cf", ".gq", ".xyz", ".top", ".club", ".online",
      ".site", ".space", ".website">>
urlShorteners ==
    <<"bit.ly", "tinyurl.com", "goo.gl", "t.co", "ow.ly", "buff.ly", "adf.ly",
      "is.gd", "v.gd", "tiny.cc">>
suspiciousKeywords ==
    <<"login", "password", "verify", "account", "security", "bank", "paypal",
      "amazon", "update", "confirm">>
macroKeywords ==
    <<"autoopen", "autoclose", "document_open", "document_close", "vba",
      "macro", "shell", "exec", "run">>
encodedContent ==
    <<"eval(", "base64", "atob(", "btoa(", "unescape(", "decodeURIComponent(">>
suspiciousExtensions ==
    <<".exe", ".bat", ".cmd", ".scr", ".pif", ".com", ".vbs", ".js", ".jar", ".hta">>

\* ------------------------------------------------------------ new URL(text)
AllDigits(s) == s # "" /\ \A i \in 1..Len(s) : IsDigit(CharAt(s, i))

\* the number a string of digits denotes
RECURSIVE ToNumber(_)
ToNumber(s) ==
    IF s = "" THEN 0
    ELSE 10 * ToNumber(SubSeq(s, 1, Len(s) - 1))
         + (CHOOSE d \in 0..9 : CharAt(Digits, d + 1) = CharAt(s, Len(s)))

\* the host parser on a host whose last label is a number: an IPv4 address of
\* one to four parts, written back with four (parts above 255 are refused;
\* the model hands it no larger last part)
ParseIPv4(labels) ==
    IF /\ Len(labels) <= 4
       /\ \A i \in DOMAIN labels : AllDigits(labels[i]) /\ ToNumber(labels[i]) <= 255
    THEN [ok |-> TRUE,
          host |-> Join(SubSeq(labels, 1, Len(labels) - 1)
                          \o [i \in 1..(4 - Len(labels)) |-> "0"]
                          \o <<Last(labels)>>, ".")]
    ELSE [ok |-> FALSE, host |-> ""]

\* new URL(text) for texts made of a scheme, a host and a path (no port, user,
\* query or fragment): hostname and pathname, or a TypeError (ok = FALSE)
ParseUrl(text) ==
    LET scheme == IF StartsWith(text, "http://") THEN "http://"
                  ELSE IF StartsWith(text, "https://") THEN "https://"
                  ELSE ""
        rest == SubSeq(text, Len(scheme) + 1, Len(text))
        parts == Split(rest, "/")
        authority == toLowerCase(parts[1])
        pathname == IF Len(parts) = 1 THEN "/"
                    ELSE SubSeq(rest, Len(parts[1]) + 1, Len(rest))
        labels == Split(authority, ".")
        ipv4 == ParseIPv4(labels)
    IN  IF scheme = "" \/ authority = ""
        THEN [ok |-> FALSE, hostname |-> "", pathname |-> ""]
        ELSE IF AllDigits(Last(labels))
        THEN [ok |-> ipv4.ok, hostname |-> ipv4.host, pathname |-> pathname]
        ELSE [ok |-> TRUE, hostname |-> authority, pathname |-> pathname]

\* ---------------------------------------------------------------- analyzeUrl
\* const analysis = { risk: 'low', reasons: [] }
NewAnalysis == [risk |-> "low", reasons |-> <<>>]
\* if (found) { analysis.reasons.push(reason); analysis.risk = risk }
SetRisk(found, analysis, reason, risk) ==
    IF found
    THEN [risk |-> risk, reasons |-> Append(analysis.reasons, reason)]
    ELSE analysis
\* if (found) { analysis.reasons.push(reason);
\*              if (analysis.risk === 'low') analysis.risk = 'medium' }
RaiseFromLow(found, analysis, reason) ==
    SetRisk(found, analysis, reason,
            IF analysis.risk = "low" THEN "medium" ELSE analysis.risk)

\* /^\d{1,3}\.\d{1,3}\.\d{1,3}\.\d{1,3}$/.test(domain)
ipRegex(domain) ==
    LET parts == Split(domain, ".")
    IN  /\ Len(parts) = 4
        /\ \A i \in 1..4 : AllDigits(parts[i]) /\ Len(parts[i]) <= 3

\* /(.)\1{3,}/.test(domain)
RepeatedChars(domain) ==
    \E i \in 1..(Len(domain) - 3) :
        \A j \in 1..3 : CharAt(domain, i + j) = CharAt(domain, i)

\* analyzeUrl(url): the rules in the order of the code; a URL that cannot be
\* parsed falls to the catch block before any rule has run
analyzeUrl(url) ==
    LET parsed == ParseUrl(IF StartsWith(url, "http") THEN url ELSE "http://" \o url)
        domain == toLowerCase(parsed.hostname)
        path == toLowerCase(parsed.pathname)
        tld == "." \o Last(Split(domain, "."))
        a1 == SetRisk(tld \in Range(suspiciousTlds),
                      NewAnalysis, "Suspicious top-level domain", "high")
        a2 == SetRisk(\E n \in DOMAIN urlShorteners : Includes(domain, urlShorteners[n]),
                      a1, "URL shortener service", "medium")
        a3 == RaiseFromLow(\E n \in DOMAIN suspiciousKeywords :
                               \/ Includes(domain, suspiciousKeywords[n])
                               \/ Includes(path, suspiciousKeywords[n]),
                           a2, "Contains suspicious keywords")
        a4 == SetRisk(ipRegex(domain), a3, "Uses IP address instead of domain", "high")
        a5 == RaiseFromLow(Len(Split(domain, ".")) > 3,
                           a4, "Unusually long subdomain chain")
        a6 == RaiseFromLow(RepeatedChars(domain), a5, "Repeated characters in domain")
    IN  IF parsed.ok THEN a6
        ELSE SetRisk(TRUE, NewAnalysis, "Malformed URL", "medium")

\* ---------------------------------------------------------------- extractUrls
\* [^\s<>"']
IsUrlChar(c) == c \notin {" ", "\n", "\r", "\t", "\f", "<", ">", "\"", "'"}
\* [a-zA-Z0-9-]
IsDomainChar(c) == IsLetter(c) \/ IsDigit(c) \/ c = "-"

\* the last position of the run of characters of one class ("url" for
\* [^\s<>"'], "domain" for [a-zA-Z0-9-]) that starts at i (i - 1 when the
\* character at i is not of the class)
RECURSIVE RunEnd(_, _, _)
RunEnd(s, i, class) ==
    IF i <= Len(s) /\ (IF class = "url" THEN IsUrlChar(CharAt(s, i))
                                        ELSE IsDomainChar(CharAt(s, i)))
    THEN RunEnd(s, i + 1, class)
    ELSE i - 1

\* one of the three alternatives of urlRegex matches at position i:
\* https?:\/\/[^\s<>"']+ , www\.[^\s<>"']+ , [a-zA-Z0-9-]+\.[a-zA-Z]{2,}[^\s<>"']*
UrlMatchAt(s, i) ==
    LET Then(prefix) == /\ Slice(s, i, i + Len(prefix) - 1) = prefix
                        /\ i + Len(prefix) <= Len(s)
                        /\ IsUrlChar(CharAt(s, i + Len(prefix)))
        e == RunEnd(s, i, "domain")
    IN  \/ Then("http://")
        \/ Then("https://")
        \/ Then("www.")
        \/ /\ e >= i
           /\ e + 3 <= Len(s)
           /\ CharAt(s, e + 1) = "."
           /\ IsLetter(CharAt(s, e + 2))
           /\ IsLetter(CharAt(s, e + 3))

\* content.match(urlRegex) from position i on: every alternative runs on to
\* the end of the run of [^\s<>"'] characters
RECURSIVE MatchUrls(_, _)
MatchUrls(s, i) ==
    IF i > Len(s) THEN <<>>
    ELSE IF UrlMatchAt(s, i)
         THEN LET e == RunEnd(s, i, "url")
              IN  <<SubSeq(s, i, e)>> \o MatchUrls(s, e + 1)
         ELSE MatchUrls(s, i + 1)

\* [...new Set(urls)]: the first occurrence of each element, in order
RECURSIVE Dedupe(_)
Dedupe(seq) ==
    IF seq = <<>> THEN <<>>
    ELSE LET front == Dedupe(SubSeq(seq, 1, Len(seq) - 1))
         IN  IF Last(seq) \in Range(front) THEN front ELSE Append(front, Last(seq))

extractUrls(text) == Dedupe(MatchUrls(text, 1))

\* ------------------------------------------------------- contents of a file
\* A content is an explicit text followed, on lines of its own, by a filler
\* of which only the measures count: its length in characters and in bytes,
\* the length of its longest line, the number of different characters it
\* uses (evenly, none of them a character of a pattern) and whether they are
\* printable ASCII
NoFill == [chars |-> 0, bytes |-> 0, line |-> 0, symbols |-> 0, ascii |-> TRUE]
\* one line of 1001 times "="
LongRun == [chars |-> 1001, bytes |-> 1001, line |-> 1001, symbols |-> 1, ascii |-> TRUE]
\* 4000 two-byte characters, 250 different ones, in lines of 80
Noise == [chars |-> 4000, bytes |-> 8000, line |-> 80, symbols |-> 250, ascii |-> FALSE]
\* 12000 printable ASCII characters, all 95 of them and the two line ends,
\* in lines of 80
Padding == [chars |-> 12000, bytes |-> 12000, line |-> 80, symbols |-> 97, ascii |-> TRUE]
Fillers == {NoFill, LongRun, Noise, Padding}

\* stands for the character U+0090 ('\x90')
Nop == "É"
\* bytes[i] >= 32 && bytes[i] <= 126, or 10, or 13, for the characters of the
\* explicit texts
IsKeptByte(c) == c \notin {Nop, "\t", "\f"}

\* variant: every character is kept
KeptBytes_all(s) == s

RECURSIVE KeptBytes(_)
KeptBytes(s) ==
    IF s = "" THEN ""
    ELSE (IF IsKeptByte(Head(s)) THEN Head(s) ELSE "") \o KeptBytes(Tail(s))

\* file.type of an object that has no type property
NoType == "undefined"

\* the test readFileContent makes twice: read as text, or as an array buffer
IsTextFile(file) ==
    \/ StartsWith(file.type, "text/")
    \/ \E ext \in {".txt", ".html", ".htm", ".xml", ".json"} : EndsWith(file.name, ext)

\* the bytes of a text in UTF-8: one for an ASCII character, two for U+0090
RECURSIVE ByteLength(_)
ByteLength(s) ==
    IF s = "" THEN 0
    ELSE (IF Head(s) = Nop THEN 2 ELSE 1) + ByteLength(Tail(s))

\* the bytes of a file: its explicit text, then its filler
FileBytes(file) == ByteLength(Join(file.words, " ")) + file.fill.bytes

Min(a, b) == IF a <= b THEN a ELSE b

\* the filler cut after its first n bytes
CutFill(fill, n) ==
    [chars |-> Min(fill.chars, n), bytes |-> Min(fill.bytes, n),
     line |-> Min(fill.line, n), symbols |-> Min(fill.symbols, n), ascii |-> TRUE]

\* variant: the loop runs over all the bytes of the file
readFileContent_wholeFile(file) ==
    LET text == Join(file.words, " ")
    IN  IF IsTextFile(file)
        THEN [text |-> text, fill |-> file.fill]
        ELSE [text |-> KeptBytes(text),
              fill |-> IF file.fill.ascii THEN file.fill ELSE NoFill]

\* what reader.onload resolves with: the text of a text file; of another file
\* the printable ASCII characters, line feeds and carriage returns among its
\* first 10000 bytes (the explicit text is shorter than that, the filler
\* after it need not be)
readFileContent(file) ==
    LET text == Join(file.words, " ")
    IN  IF IsTextFile(file)
        THEN [text |-> text, fill |-> file.fill]
        ELSE [text |-> KeptBytes(text),
              fill |-> IF file.fill.ascii
                       THEN CutFill(file.fill, 10000 - ByteLength(text))
                       ELSE NoFill]

\* ------------------------------------------------------------ the detectors
Finding(type, severity, subject, details) ==
    [type |-> type, severity |-> severity, subject |-> subject, details |-> details]

detectMacros(content, filename) ==
    LET vbaCode == \E p \in {"Sub ", "Function ", "Private Sub", "Public Sub"} :
                       Includes(content.text, p)
        Found(keyword) == Includes(toLowerCase(content.text), toLowerCase(keyword))
        foundMacros == SelectSeq(macroKeywords, Found)
        officeFile == \E ext \in {".docm", ".xlsm", ".pptm", ".doc", ".xls", ".ppt"} :
                          EndsWith(filename, ext)
    IN  [hasMacros |-> vbaCode \/ foundMacros # <<>>,
         details |->
             (IF vbaCode THEN <<"Contains VBA macro code">> ELSE <<>>)
             \o (IF foundMacros # <<>>
                 THEN <<"Found macro keywords: " \o Join(foundMacros, ", ")>>
                 ELSE <<>>)
             \o (IF officeFile THEN <<"File type commonly contains macros">> ELSE <<>>)]

\* lines.filter(line => line.length > 1000).length > 0
HasLongLine(content) ==
    \/ \E line \in Range(Split(content.text, "\n")) : Len(line) > 1000
    \/ content.fill.line > 1000

\* calculateEntropy(content) > 7.5. The entropy is at most the base-2
\* logarithm of the number of different characters, so it takes more than
\* 181 of them; an evenly used filler of that many characters that is 40
\* times as long as the text beside it puts the entropy above 7.5
HasHighEntropy(content) ==
    /\ Cardinality(Chars(content.text)) + content.fill.symbols > 181
    /\ content.fill.symbols > 181
    /\ content.fill.chars >= 40 * (Len(content.text) + 1)

detectSuspiciousPatterns(content) ==
    LET Found(pattern) == Includes(content.text, pattern)
        encodedPatterns == SelectSeq(encodedContent, Found)
    IN  (IF encodedPatterns # <<>>
         THEN <<Finding("encoded_content", "high", "",
                        "Found patterns: " \o Join(encodedPatterns, ", "))>>
         ELSE <<>>)
        \o (IF Includes(content.text, "MZ") /\ Includes(content.text, Nop \o Nop)
            THEN <<Finding("executable_content", "high", "", <<>>)>>
            ELSE <<>>)
        \o (IF HasLongLine(content)
            THEN <<Finding("suspicious_formatting", "medium", "", <<>>)>>
            ELSE <<>>)
        \o (IF HasHighEntropy(content)
            THEN <<Finding("high_entropy", "medium", "", <<>>)>>
            ELSE <<>>)

\* -------------------------------------------------------- scanFileForThreats
\* const results = { threats: [], warnings: [], score: 0, risk: 'low' }
\* (error "" stands for a result without an error field)
NewResults ==
    [threats |-> <<>>, warnings |-> <<>>, score |-> 0, risk |-> "low", error |-> ""]

\* if (found) { results.threats.push(finding); results.score += points }
AddThreat(found, results, finding, points) ==
    IF found
    THEN [results EXCEPT !.threats = Append(@, finding), !.score = @ + points]
    ELSE results
\* if (found) { results.warnings.push(finding); results.score += points }
AddWarning(found, results, finding, points) ==
    IF found
    THEN [results EXCEPT !.warnings = Append(@, finding), !.score = @ + points]
    ELSE results

\* variant: a medium URL is pushed to the threats as well
ScanUrl_allThreats(results, url, urlAnalysis) ==
    AddThreat(urlAnalysis.risk = "medium",
        AddThreat(urlAnalysis.risk = "high", results,
            Finding("phishing_url", "high", url, urlAnalysis.reasons), 25),
        Finding("suspicious_url", "medium", url, urlAnalysis.reasons), 10)

\* the body of the URL loop, urlAnalysis being analyzeUrl(url)
ScanUrl(results, url, urlAnalysis) ==
    AddWarning(urlAnalysis.risk = "medium",
        AddThreat(urlAnalysis.risk = "high", results,
            Finding("phishing_url", "high", url, urlAnalysis.reasons), 25),
        Finding("suspicious_url", "medium", url, urlAnalysis.reasons), 10)

\* for (const url of urls) { ... }
RECURSIVE ScanUrls(_, _)
ScanUrls(results, urls) ==
    IF urls = <<>> THEN results
    ELSE ScanUrls(ScanUrl(results, Head(urls), analyzeUrl(Head(urls))), Tail(urls))

\* variant: the pattern loop ends at the first high-severity pattern
RECURSIVE ScanPatterns_stopsAtThreat(_, _)
ScanPatterns_stopsAtThreat(results, patterns) ==
    IF patterns = <<>> THEN results
    ELSE IF Head(patterns).severity = "high"
    THEN AddThreat(TRUE, results, Head(patterns), 20)
    ELSE ScanPatterns_stopsAtThreat(AddWarning(TRUE, results, Head(patterns), 5),
                                    Tail(patterns))

\* for (const pattern of patternAnalysis) { ... }
RECURSIVE ScanPatterns(_, _)
ScanPatterns(results, patterns) ==
    IF patterns = <<>> THEN results
    ELSE ScanPatterns(
             AddWarning(Head(patterns).severity # "high",
                 AddThreat(Head(patterns).severity = "high", results, Head(patterns), 20),
                 Head(patterns), 5),
             Tail(patterns))

\* variant: the thresholds are exclusive
RiskOf_exclusive(score) ==
    IF score > 50 THEN "high" ELSE IF score > 20 THEN "medium" ELSE "low"

\* "Determine overall risk level"
RiskOf(score) ==
    IF score >= 50 THEN "high" ELSE IF score >= 20 THEN "medium" ELSE "low"

\* results.risk = ...; return results
Classified(results) == [results EXCEPT !.risk = RiskOf(results.score)]

\* variant: one macro threat for every detail detectMacros reports
ScanContent_threatPerDetail(file, content) ==
    LET fileName == toLowerCase(file.name)
        macroAnalysis == detectMacros(content, fileName)
    IN  Classified(
        AddWarning(file.size > 50 * 1024 * 1024,
            ScanPatterns(
                AddThreat(Len(macroAnalysis.details) > 1,
                    AddThreat(macroAnalysis.hasMacros,
                        ScanUrls(
                            AddThreat(\E n \in DOMAIN suspiciousExtensions :
                                          EndsWith(fileName, suspiciousExtensions[n]),
                                NewResults,
                                Finding("suspicious_extension", "high",
                                        Last(Split(file.name, ".")), <<>>), 30),
                            extractUrls(content.text)),
                        Finding("macro_malware", "high", "", macroAnalysis.details), 40),
                    Finding("macro_malware", "high", "", macroAnalysis.details), 40),
                detectSuspiciousPatterns(content)),
            Finding("large_file", "low", "", <<>>), 5))

\* the try block of scanFileForThreats after the content has been read, the
\* five checks applied from the innermost (file name) to the outermost (size)
ScanContent(file, content) ==
    LET fileName == toLowerCase(file.name)
        macroAnalysis == detectMacros(content, fileName)
    IN  Classified(
        AddWarning(file.size > 50 * 1024 * 1024,
            ScanPatterns(
                AddThreat(macroAnalysis.hasMacros,
                    ScanUrls(
                        AddThreat(\E n \in DOMAIN suspiciousExtensions :
                                      EndsWith(fileName, suspiciousExtensions[n]),
                            NewResults,
                            Finding("suspicious_extension", "high",
                                    Last(Split(file.name, ".")), <<>>), 30),
                        extractUrls(content.text)),
                    Finding("macro_malware", "high", "", macroAnalysis.details), 40),
                detectSuspiciousPatterns(content)),
            Finding("large_file", "low", "", <<>>), 5))

\* variant: after a failure the results gathered so far are returned
scanFileForThreats_returnsPartial(file, read) ==
    IF read.ok THEN ScanContent(file, read.val) ELSE NewResults

\* scanFileForThreats(file), read being what readFileContent settled with:
\* the content, or the error the catch block receives
scanFileForThreats(file, read) ==
    IF read.ok
    THEN ScanContent(file, read.val)
    ELSE [threats |-> <<>>, warnings |-> <<>>, score |-> 0, risk |-> "unknown",
          error |-> "Failed to scan file: " \o read.val.v]

\* ----------------------------------------------------------- ciphertexts
AesCt(key, text) == [kind |-> "aes", key |-> key, pt |-> text]
CorruptCt == [kind |-> "corrupt", key |-> Null, pt |-> <<>>]
EmptyCt == [kind |-> "empty", key |-> Null, pt |-> <<>>]
AbsentCt == [kind |-> "absent", key |-> Null, pt |-> <<>>]

\* !ciphertext : "" and undefined are falsy
FalsyCt(ct) == ct.kind \in {"empty", "absent"}

\* what bytes.toString(CryptoJS.enc.Utf8) can give for bytes produced under
\* the wrong key: malformed UTF-8 (throws), or a text
GarbageOutcomes ==
    { [utf8 |-> FALSE, text |-> <<>>],
      [utf8 |-> TRUE, text |-> <<>>],
      [utf8 |-> TRUE, text |-> <<"7">>] }

\* CryptoJS.AES.encrypt(JSON.stringify(data), key).toString()
encryptData(data, key) ==
    IF key = Null
    THEN [ok |-> FALSE, ct |-> AbsentCt, err |-> "Failed to encrypt data"]
    ELSE [ok |-> TRUE, ct |-> AesCt(key, JSONstringify(data)), err |-> ""]

\* CryptoJS.AES.decrypt(encryptedData, key).toString(CryptoJS.enc.Utf8)
AESdecryptUtf8(encryptedData, key, g) ==
    IF key = Null THEN [utf8 |-> FALSE, text |-> <<>>]
    ELSE IF encryptedData.kind = "aes" /\ encryptedData.key = key
         THEN [utf8 |-> TRUE, text |-> encryptedData.pt]
    ELSE IF FalsyCt(encryptedData) THEN [utf8 |-> TRUE, text |-> <<>>]
    ELSE g

decryptData(encryptedData, key, g) ==
    LET decrypted == AESdecryptUtf8(encryptedData, key, g)
        parsed == JSONparse(decrypted.text)
    IN  IF decrypted.utf8 /\ parsed.ok THEN parsed
        ELSE Err("Failed to decrypt data")

\* variant: without a key argument, the current session key is used
createEncryptedPayload_sessionDefault(data, keyArg, fresh) ==
    LET key == IF ~Falsy(keyArg) THEN keyArg
               ELSE IF Falsy(sessionKey) THEN generateEncryptionKey(fresh)
               ELSE sessionKey
    IN  [encryptedData |-> encryptData(data, key).ct,
         key |-> key,
         version |-> "1.0"]

\* variant: the key field is the argument, not the key that was used
createEncryptedPayload_keyFromArg(data, keyArg, fresh) ==
    LET key == IF Falsy(keyArg) THEN generateEncryptionKey(fresh) ELSE keyArg
    IN  [encryptedData |-> encryptData(data, key).ct,
         key |-> keyArg,
         version |-> "1.0"]

\* createEncryptedPayload(data, sessionKey = null); fresh is the key the
\* random source yields if it is asked
createEncryptedPayload(data, keyArg, fresh) ==
    LET key == IF Falsy(keyArg) THEN generateEncryptionKey(fresh) ELSE keyArg
    IN  [encryptedData |-> encryptData(data, key).ct,
         key |-> key,
         version |-> "1.0"]

\* variant: without a key argument, the envelope's own key is used
decryptApiResponse_envelopeKey(response, key, g) ==
    IF FalsyCt(response.encryptedData)
    THEN Ok(response)
    ELSE decryptData(response.encryptedData,
                     IF key = Null THEN response.key ELSE key, g)

\* variant: the encryptedData field is decrypted whatever it holds
decryptApiResponse_alwaysDecrypts(response, key, g) ==
    decryptData(response.encryptedData, key, g)

\* decryptApiResponse(response, key); a response without encryptedData is
\* returned as it is
decryptApiResponse(response, key, g) ==
    IF FalsyCt(response.encryptedData)
    THEN Ok(response)
    ELSE decryptData(response.encryptedData, key, g)

decryptFile(encryptedData, key, g) ==
    LET r == decryptData(encryptedData, key, g)
    IN  IF r.ok THEN r ELSE Err("Failed to decrypt file")

\* variant: a new key on every call
getSessionKey_regenerates(sk, fresh) == generateEncryptionKey(fresh)

\* getSessionKey(): the key it returns (and leaves in sessionKey)
getSessionKey(sk, fresh) ==
    IF Falsy(sk) THEN generateEncryptionKey(fresh) ELSE sk

\* variant: the key survives the reset
resetSessionKey_keepsKey(sk) == sk

resetSessionKey(sk) == Null

\* ---------------------------------------------------------- files, no values
Files == {"f1", "f2"}
\* FileReader.readAsDataURL(file): event.target.result
DataURL(f) == IF f = "f1" THEN VStr("data:application/pdf;base64,AAEC")
              ELSE VStr("data:text/plain;base64,aGk=")
FileType(f) == IF f = "f1" THEN "application/pdf" ELSE "text/plain"

NoPayload == [encryptedData |-> AbsentCt, key |-> Null, version |-> ""]
NoEnv == [op |-> "none", data |-> VNull, keyArg |-> Null, env |-> NoPayload]
NoResult == [op |-> "none", key |-> Null, ok |-> TRUE, val |-> VNull]
NotStored == [blob |-> AbsentCt, encryption_key |-> Null, original_name |-> ""]
NoDownload == [file |-> "f1", responded |-> FALSE, res |-> Ok(VNull)]
NoInput == [x |-> VNull, kw |-> Null, kd |-> Null, g |-> [utf8 |-> FALSE, text |-> <<>>]]

\* keys a caller can pass: nothing, "", its own passphrases, keys already drawn
KeyInputs == {Null, EmptyKey} \cup (1..(nextKey - 1))

InitKeys ==
    /\ sessionKey = Null
    /\ nextKey = FirstGenKey
    /\ getsSinceReset = {}
    /\ getCount = 0
    /\ oldGets = {}
InitEnv ==
    /\ lastEnv = NoEnv
    /\ lastResult = NoResult
    /\ calls = EmptyBag
InitAuth ==
    /\ loginPc = "idle"
    /\ logoutPc = "idle"
    /\ logoutBackendOk = FALSE
    /\ user = "none"
    /\ tokens = FALSE
InitXfer ==
    /\ server = [f \in Files |-> NotStored]
    /\ lastDownload = NoDownload
InitCodec ==
    /\ cin = NoInput
    /\ cmade = "none"
    /\ cenv = NoPayload
    /\ cout = NoResult

\* OfflineEncryption: useState([]), useState(false), useState(0), useState(''),
\* useState('encrypt'), useState(''), useState('')
InitBatch ==
    /\ files = <<>>
    /\ processing = FALSE
    /\ progress = 0
    /\ password = ""
    /\ mode = "encrypt"
    /\ error = ""
    /\ success = ""
    /\ nextId = 1
    /\ updatedFiles = <<>>
    /\ loopI = 0
    /\ runMode = "encrypt"

\* the analyzeUrl harness before the call
NoAnalysis == [risk |-> "none", reasons |-> <<>>]
NoFile == [name |-> "", type |-> "", size |-> 0, words |-> <<>>, fill |-> NoFill]
NoContent == [text |-> "", fill |-> NoFill]

InitScan ==
    /\ scanFile = NoFile
    /\ scanPc = "idle"
    /\ scanContent = NoContent
    /\ scanResult = NewResults
InitUrl ==
    /\ urlIn = <<>>
    /\ urlOut = NoAnalysis

\* ------------------------------- processed file names (Dashboard.js 696-703)
\* position of the first occurrence of p in s, 0 when there is none
IndexOf(s, p) ==
    IF Includes(s, p)
    THEN CHOOSE i \in 1..(Len(s) - Len(p) + 1) :
             /\ SubSeq(s, i, i + Len(p) - 1) = p
             /\ \A j \in 1..(i - 1) : SubSeq(s, j, j + Len(p) - 1) # p
    ELSE 0

\* s.replace(p, r) with a string pattern: the first occurrence only
ReplaceFirst(s, p, r) ==
    IF IndexOf(s, p) = 0 THEN s
    ELSE SubSeq(s, 1, IndexOf(s, p) - 1) \o r
         \o SubSeq(s, IndexOf(s, p) + Len(p), Len(s))

\* processedName of processFile: the name under which the result is saved
processedName(name, m) ==
    IF m = "encrypt" THEN name \o ".encrypted"
    ELSE ReplaceFirst(name, ".encrypted", "")

NameSegments == {"a", "b", ".encrypted", ".txt"}
RECURSIVE NamesOf(_)
NamesOf(n) ==
    IF n = 0 THEN {""}
    ELSE {front \o seg : front \in NamesOf(n - 1), seg \in NameSegments}
FileNames == UNION {NamesOf(n) : n \in 1..MaxParts}

NoName == [by |-> "none", name |-> ""]

InitName ==
    /\ nameIn = ""
    /\ nameOut = NoName

InitNameInputs ==
    /\ nameIn \in FileNames
    /\ nameOut = NoName

\* -------------------------------------- FileUpload state (Dashboard.js 989-992)
\* status of the file with this id in a list, "removed" when it is not there
ListedStatus(list, id) ==
    IF \E i \in DOMAIN list : list[i].id = id
    THEN list[CHOOSE i \in DOMAIN list : list[i].id = id].status
    ELSE "removed"

\* prev.map(f => f.id === id ? { ...f, status } : f)
SetStatus(list, id, status) ==
    [i \in DOMAIN list |->
        IF list[i].id = id THEN [list[i] EXCEPT !.status = status] ELSE list[i]]

\* { ...prev, [id]: percent }
SetProgress(prev, id, percent) ==
    [x \in DOMAIN prev \cup {id} |-> IF x = id THEN percent ELSE prev[x]]

\* the entry the history keeps of one filesAPI.uploadFile call
UploadCall(fileData, list) ==
    [id |-> fileData.id, status |-> fileData.status,
     listed |-> ListedStatus(list, fileData.id), outcome |-> "inflight"]

InitUpload ==
    /\ uploadedFiles = <<>>
    /\ uploading = FALSE
    /\ uploadProgress = <<>>
    /\ pendingFiles = <<>>
    /\ upI = 0
    /\ upNextId = 1
    /\ uploadCalls = <<>>

\* ------------------- api client state (LoadingSpinner.js 132-199, api.js 8-96)
Platforms == {"web", "mobile"}
\* which of the two tokens the store holds
NoTokens == [access |-> FALSE, refresh |-> FALSE]
Stores == [access : BOOLEAN, refresh : BOOLEAN]
\* status codes a response can carry: success, unauthorized, any other failure
Statuses == {200, 401, 500}
NoStatus == 0
Requests == 1..MaxRequests

InitApi ==
    /\ platform = "web"
    /\ storage = NoTokens
    /\ reqPc = [r \in Requests |-> "idle"]
    /\ retry = [r \in Requests |-> FALSE]
    /\ sends = [r \in Requests |-> 0]
    /\ refreshes = [r \in Requests |-> 0]
    /\ lastStatus = [r \in Requests |-> NoStatus]

InitApiInputs ==
    /\ platform \in Platforms
    /\ storage \in Stores
    /\ reqPc = [r \in Requests |-> "idle"]
    /\ retry = [r \in Requests |-> FALSE]
    /\ sends = [r \in Requests |-> 0]
    /\ refreshes = [r \in Requests |-> 0]
    /\ lastStatus = [r \in Requests |-> NoStatus]

InitPage == InitName /\ InitUpload /\ InitApi

InitCrypto == InitKeys /\ InitEnv /\ InitAuth /\ InitXfer /\ InitCodec

Init == InitCrypto /\ InitBatch /\ InitScan /\ InitUrl /\ InitPage

\* ------------------------------------------------------ session key (crypto.js)
\* the random source has a draw left when getSessionKey needs one
CanGet == ~Falsy(sessionKey) \/ nextKey <= LastGenKey
NextAfterGet == IF Falsy(sessionKey) THEN nextKey + 1 ELSE nextKey
\* history: one more getSessionKey call
Counted(n) == IF n < 2 THEN n + 1 ELSE n
\* history: the pending encryptFile calls after resetSessionKey destroyed the
\* key sk (nothing to note when there was no key)
AfterReset(b, sk) ==
    IF sk = Null THEN b
    ELSE LET Seen(c) == [c EXCEPT !.resetSeen = TRUE]
             Unseen(r) == [r EXCEPT !.resetSeen = FALSE]
             Copies(c) == IF c \in DOMAIN b THEN b[c] ELSE 0
         IN  [r \in {Seen(c) : c \in DOMAIN b} |-> Copies(r) + Copies(Unseen(r))]

GetSessionKey ==
    /\ CanGet
    /\ sessionKey' = getSessionKey(sessionKey, nextKey)
    /\ nextKey' = NextAfterGet
    /\ getsSinceReset' = getsSinceReset \cup {sessionKey'}
    /\ getCount' = Counted(getCount)
    /\ UNCHANGED <<oldGets, envVars, calls, authVars, xferVars, codecVars, sideVars>>

ResetSessionKey ==
    /\ sessionKey' = resetSessionKey(sessionKey)
    /\ oldGets' = oldGets \cup getsSinceReset
    /\ getsSinceReset' = {}
    /\ getCount' = 0
    /\ calls' = AfterReset(calls, sessionKey)
    /\ UNCHANGED <<nextKey, envVars, authVars, xferVars, codecVars, sideVars>>

CreateEncryptedPayload(x, k) ==
    /\ ~Falsy(k) \/ nextKey <= LastGenKey
    /\ lastEnv' = [op |-> "createEncryptedPayload", data |-> x, keyArg |-> k,
                   env |-> createEncryptedPayload(x, k, nextKey)]
    /\ nextKey' = IF Falsy(k) THEN nextKey + 1 ELSE nextKey
    /\ lastResult' = NoResult
    /\ UNCHANGED <<sessionKey, getsSinceReset, getCount, oldGets, calls, authVars,
                   xferVars, codecVars, sideVars>>

\* encryptFormData(formData) = createEncryptedPayload(formData, getSessionKey())
EncryptFormData(x) ==
    /\ CanGet
    /\ sessionKey' = getSessionKey(sessionKey, nextKey)
    /\ nextKey' = NextAfterGet
    /\ getsSinceReset' = getsSinceReset \cup {sessionKey'}
    /\ getCount' = Counted(getCount)
    /\ lastEnv' = [op |-> "encryptFormData", data |-> x, keyArg |-> sessionKey',
                   env |-> createEncryptedPayload(x, sessionKey', nextKey')]
    /\ lastResult' = NoResult
    /\ UNCHANGED <<oldGets, calls, authVars, xferVars, codecVars, sideVars>>

\* the form data of the session-level runs (the codec runs take every value)
FormValues == {VStr("secret")}
\* the file the session-level runs encrypt (the transfer runs take every file)
SessionFiles == {"f1"}

\* ------------------------------------------------------ encryptFile / decryptFile
\* encryptFile(file): new FileReader(), reader.readAsDataURL(file); the promise
\* stays pending until the reader fires onload or onerror
StartRead(f, who) ==
    /\ BagCardinality(calls) < MaxCalls
    /\ calls' = calls (+) SetToBag({[file |-> f, caller |-> who,
                                     keyAtCall |-> sessionKey,
                                     resetSeen |-> FALSE]})

EncryptFileCall(f) ==
    /\ StartRead(f, "direct")
    /\ UNCHANGED <<keyVars, envVars, authVars, xferVars, codecVars, sideVars>>

\* the envelope encryptFile resolves with
FileEnvelope(f, encrypted, key) ==
    [encryptedData |-> encrypted, originalName |-> f, type |-> FileType(f),
     key |-> key]

\* reader.onload: encryptData(fileData, getSessionKey()), key: getSessionKey()
\* (history, joined: the call began without a session key, no key was destroyed
\* while the file was read, and the key it used had been made by another call)
\* and, for filesAPI.uploadFile, the continuation that posts the form data
ReaderOnload(c, stored) ==
    LET f == c.file
        k1 == getSessionKey(sessionKey, nextKey)
        n1 == NextAfterGet
        k2 == getSessionKey(k1, n1)
        enc == encryptData(DataURL(f), k1)
        env == FileEnvelope(f, enc.ct, k2)
    IN  /\ BagIn(c, calls)
        /\ CanGet
        /\ sessionKey' = k2
        /\ nextKey' = n1
        /\ getsSinceReset' = getsSinceReset \cup {k1, k2}
        /\ getCount' = Counted(Counted(getCount))
        /\ calls' = calls (-) SetToBag({c})
        /\ IF enc.ok
           THEN /\ lastEnv' = [op |-> "encryptFile", data |-> DataURL(f),
                               keyArg |-> c.keyAtCall, env |-> env,
                               joined |-> /\ c.keyAtCall = Null
                                          /\ ~c.resetSeen
                                          /\ n1 = nextKey]
                /\ lastResult' = NoResult
           ELSE /\ lastEnv' = lastEnv
                /\ lastResult' = [op |-> "encryptFile", key |-> Null]
                                     @@ Err(enc.err)
        /\ IF c.caller = "upload" /\ enc.ok /\ stored
           THEN server' = [server EXCEPT ![f] =
                              [blob |-> env.encryptedData,
                               encryption_key |-> env.key,
                               original_name |-> env.originalName]]
           ELSE server' = server
        /\ UNCHANGED <<oldGets, authVars, lastDownload, codecVars, sideVars>>

\* variant: a failed read also clears the session key
ReaderOnerror_resetsKey(c) ==
    /\ BagIn(c, calls)
    /\ calls' = calls (-) SetToBag({c})
    /\ lastResult' = [op |-> "encryptFile", key |-> Null]
                         @@ Err("Failed to read file")
    /\ sessionKey' = Null
    /\ oldGets' = oldGets \cup getsSinceReset
    /\ getsSinceReset' = {}
    /\ getCount' = 0
    /\ UNCHANGED <<nextKey, lastEnv, authVars, xferVars, codecVars, sideVars>>

\* reader.onerror: reject(new Error('Failed to read file'))
ReaderOnerror(c) ==
    /\ BagIn(c, calls)
    /\ calls' = calls (-) SetToBag({c})
    /\ lastResult' = [op |-> "encryptFile", key |-> Null]
                         @@ Err("Failed to read file")
    /\ UNCHANGED <<keyVars, lastEnv, authVars, xferVars, codecVars, sideVars>>

\* decryptFile(encryptedData, key) on the ciphertext of the last envelope
DecryptFile(k, g) ==
    /\ lastEnv.op # "none"
    /\ lastResult' = [op |-> "decryptFile", key |-> k]
                         @@ decryptFile(lastEnv.env.encryptedData, k, g)
    /\ UNCHANGED <<keyVars, lastEnv, calls, authVars, xferVars, codecVars, sideVars>>

\* the ciphertext of the last envelope, as it was made or damaged on its way
ReceivedCt(damaged) ==
    IF damaged THEN CorruptCt ELSE lastEnv.env.encryptedData

\* decryptData(encryptedData, key) while a session is running
DecryptDataCall(damaged, k, g) ==
    /\ lastEnv.op # "none"
    /\ lastResult' = [op |-> "decryptData", key |-> k]
                         @@ decryptData(ReceivedCt(damaged), k, g)
    /\ UNCHANGED <<keyVars, lastEnv, calls, authVars, xferVars, codecVars, sideVars>>

\* decryptApiResponse(response, key) while a session is running
DecryptApiResponseCall(damaged, k, g) ==
    /\ lastEnv.op # "none"
    /\ lastResult' = [op |-> "decryptApiResponse", key |-> k]
                         @@ decryptApiResponse(
                                [encryptedData |-> ReceivedCt(damaged),
                                 key |-> lastEnv.env.key, version |-> "1.0"],
                                k, g)
    /\ UNCHANGED <<keyVars, lastEnv, calls, authVars, xferVars, codecVars, sideVars>>

\* ------------------------------------------------ AuthProvider (AuthContext.js)
\* login(credentials): authAPI.login encrypts the credentials and posts them
LoginCall(x) ==
    /\ loginPc = "idle"
    /\ CanGet
    /\ sessionKey' = getSessionKey(sessionKey, nextKey)
    /\ nextKey' = NextAfterGet
    /\ getsSinceReset' = getsSinceReset \cup {sessionKey'}
    /\ getCount' = Counted(getCount)
    /\ lastEnv' = [op |-> "encryptFormData", data |-> x, keyArg |-> sessionKey',
                   env |-> createEncryptedPayload(x, sessionKey', nextKey')]
    /\ lastResult' = NoResult
    /\ loginPc' = "awaiting"
    /\ UNCHANGED <<oldGets, calls, logoutPc, logoutBackendOk, user, tokens,
                   xferVars, codecVars, sideVars>>

\* the backend answers the login request
LoginResume(backendOk) ==
    /\ loginPc = "awaiting"
    /\ loginPc' = "idle"
    /\ IF backendOk
       THEN tokens' = TRUE /\ user' = "user"
       ELSE UNCHANGED <<tokens, user>>
    /\ UNCHANGED <<keyVars, envVars, calls, logoutPc, logoutBackendOk,
                   xferVars, codecVars, sideVars>>

\* logout(): await authAPI.logout()
LogoutCall ==
    /\ logoutPc # "awaiting"
    /\ logoutPc' = "awaiting"
    /\ UNCHANGED <<keyVars, envVars, calls, loginPc, logoutBackendOk, user,
                   tokens, xferVars, codecVars, sideVars>>

\* handleLogout() of api.js
handleLogout(sk) == resetSessionKey(sk)

\* variant: the local cleanup is skipped when the backend request fails
LogoutResume_cleanupOnSuccessOnly(backendOk, toastDefined) ==
    /\ logoutPc = "awaiting"
    /\ logoutBackendOk' = backendOk
    /\ IF backendOk
       THEN /\ tokens' = FALSE
            /\ user' = "none"
            /\ sessionKey' = handleLogout(sessionKey)
            /\ oldGets' = oldGets \cup getsSinceReset
            /\ getsSinceReset' = {}
            /\ getCount' = 0
            /\ calls' = AfterReset(calls, sessionKey)
       ELSE UNCHANGED <<tokens, user, sessionKey, oldGets, getsSinceReset,
                        getCount, calls>>
    /\ logoutPc' = IF toastDefined THEN "resolved" ELSE "rejected"
    /\ UNCHANGED <<nextKey, envVars, loginPc, xferVars, codecVars, sideVars>>

\* the backend request settles (its failure is caught), and logout() runs to
\* its end: tokens removed, user cleared, handleLogout(), toast.info(...).
\* AuthContext.js does not import toast: the last statement throws unless a
\* global of that name exists
LogoutResume(backendOk, toastDefined) ==
    /\ logoutPc = "awaiting"
    /\ logoutBackendOk' = backendOk
    /\ tokens' = FALSE
    /\ user' = "none"
    /\ sessionKey' = handleLogout(sessionKey)
    /\ oldGets' = oldGets \cup getsSinceReset
    /\ getsSinceReset' = {}
    /\ getCount' = 0
    /\ calls' = AfterReset(calls, sessionKey)
    /\ logoutPc' = IF toastDefined THEN "resolved" ELSE "rejected"
    /\ UNCHANGED <<nextKey, envVars, loginPc, xferVars, codecVars, sideVars>>

\* --------------------------------------------------------- filesAPI (api.js)
\* uploadFile(file): await encryptFile(file), then post the form data
UploadFileCall(f) ==
    /\ StartRead(f, "upload")
    /\ UNCHANGED <<keyVars, envVars, authVars, xferVars, codecVars, sideVars>>

\* response.data of a request made with responseType 'blob': a Blob of the
\* body; a Blob has no property named key
AxiosBlob(body) == [text |-> body, key |-> Null]

\* downloadFile(fileId): get the blob, decryptFile(text, response.data.key)
DownloadFile(f, responded, g) ==
    /\ ~FalsyCt(server[f].blob)
    /\ lastDownload' =
          IF responded
          THEN LET data == AxiosBlob(server[f].blob)
               IN  [file |-> f, responded |-> TRUE,
                    res |-> decryptFile(data.text, data.key, g)]
          ELSE [file |-> f, responded |-> FALSE, res |-> Err("Network Error")]
    /\ UNCHANGED <<keyVars, envVars, calls, authVars, server, codecVars, sideVars>>

\* ------------------------------------------------- the codec on chosen inputs
CodecKeys == {Null, EmptyKey} \cup (1..FirstGenKey)

InitCodecInputs ==
    /\ cin \in [x : JSONValues \cup {VNaN}, kw : CodecKeys, kd : CodecKeys,
                 g : GarbageOutcomes]
    /\ cmade = "none"
    /\ cenv = NoPayload
    /\ cout = NoResult

\* createEncryptedPayload(x, kw)
CodecWrap ==
    /\ cmade = "none"
    /\ cmade' = "createEncryptedPayload"
    /\ cenv' = createEncryptedPayload(cin.x, cin.kw, nextKey)
    /\ nextKey' = IF Falsy(cin.kw) THEN nextKey + 1 ELSE nextKey
    /\ UNCHANGED <<sessionKey, getsSinceReset, getCount, oldGets, envVars,
                   calls, authVars, xferVars, cin, cout, sideVars>>

\* encryptData(x, kw)
CodecEncrypt ==
    LET e == encryptData(cin.x, cin.kw)
    IN  /\ cmade = "none"
        /\ IF e.ok
           THEN /\ cmade' = "encryptData"
                /\ cenv' = [encryptedData |-> e.ct, key |-> Null, version |-> ""]
                /\ cout' = cout
           ELSE /\ cmade' = "failed"
                /\ cenv' = cenv
                /\ cout' = [op |-> "encryptData", key |-> cin.kw] @@ Err(e.err)
        /\ UNCHANGED <<keyVars, envVars, calls, authVars, xferVars, cin, sideVars>>

\* the ciphertext is damaged on its way
CodecCorrupt ==
    /\ cenv.encryptedData.kind = "aes"
    /\ cout.op = "none"
    /\ cenv' = [cenv EXCEPT !.encryptedData = CorruptCt]
    /\ UNCHANGED <<keyVars, envVars, calls, authVars, xferVars, cin, cmade, cout, sideVars>>

\* a response that is not an envelope: its encryptedData field is missing or
\* the empty string, its other fields hold what the inputs say
CodecPlain ==
    /\ cmade = "none"
    /\ cmade' = "plain"
    /\ \E ct \in {AbsentCt, EmptyCt}, ver \in {"", "1.0"} :
           cenv' = [encryptedData |-> ct, key |-> cin.kw, version |-> ver]
    /\ UNCHANGED <<keyVars, envVars, calls, authVars, xferVars, cin, cout, sideVars>>

\* decryptApiResponse(envelope, kd)
CodecUnwrap ==
    /\ cmade \in {"createEncryptedPayload", "plain"}
    /\ cout.op = "none"
    /\ cout' = [op |-> "decryptApiResponse", key |-> cin.kd]
                  @@ decryptApiResponse(cenv, cin.kd, cin.g)
    /\ UNCHANGED <<keyVars, envVars, calls, authVars, xferVars, cin, cmade, cenv, sideVars>>

\* decryptData(ciphertext, kd)
CodecDecrypt ==
    /\ cmade = "encryptData"
    /\ cout.op = "none"
    /\ cout' = [op |-> "decryptData", key |-> cin.kd]
                  @@ decryptData(cenv.encryptedData, cin.kd, cin.g)
    /\ UNCHANGED <<keyVars, envVars, calls, authVars, xferVars, cin, cmade, cenv, sideVars>>

\* ------------------------------------- OfflineEncryption (Dashboard.js)
\* onDrop: one accepted file joins the list as pending
OnDrop ==
    /\ nextId <= MaxDrops
    /\ files' = Append(files, [id |-> nextId, status |-> "pending"])
    /\ nextId' = nextId + 1
    /\ error' = ""
    /\ success' = ""
    /\ UNCHANGED <<processing, progress, password, mode, updatedFiles, loopI,
                   runMode, notBatchVars>>

\* the ids in a list
Ids(list) == {list[n].id : n \in DOMAIN list}

removeFile(list, id) == SelectSeq(list, LAMBDA f : f.id # id)

RemoveFile(id) ==
    /\ id \in Ids(files)
    /\ files' = removeFile(files, id)
    /\ UNCHANGED <<processing, progress, password, mode, error, success, nextId,
                   updatedFiles, loopI, runMode, notBatchVars>>

ClearAll ==
    /\ files' = <<>>
    /\ error' = ""
    /\ success' = ""
    /\ progress' = 0
    /\ UNCHANGED <<processing, password, mode, nextId, updatedFiles, loopI,
                   runMode, notBatchVars>>

\* the password field and the mode buttons
SetPassword(p) ==
    /\ p # password
    /\ password' = p
    /\ UNCHANGED <<files, processing, progress, mode, error, success, nextId,
                   updatedFiles, loopI, runMode, notBatchVars>>

SetMode(m) ==
    /\ m # mode
    /\ mode' = m
    /\ UNCHANGED <<files, processing, progress, password, error, success, nextId,
                   updatedFiles, loopI, runMode, notBatchVars>>

\* updatedFiles[i] = { ...fileObj, status: 'processing' }
MarkProcessing(list, n) == [list EXCEPT ![n].status = "processing"]
\* processFile resolves with { ...fileObj, status: 'completed', ... }
MarkCompleted(list, n) == [list EXCEPT ![n].status = "completed"]

\* a handler that starts the run without looking at the password
ProcessAllFiles_ignoresPassword ==
    /\ ~processing
    /\ IF Len(files) = 0
       THEN /\ error' = "Please select files to process"
            /\ UNCHANGED <<files, processing, progress, success, updatedFiles,
                           loopI, runMode>>
       ELSE /\ processing' = TRUE
            /\ progress' = 0
            /\ error' = ""
            /\ success' = ""
            /\ updatedFiles' = MarkProcessing(files, 1)
            /\ files' = updatedFiles'
            /\ loopI' = 1
            /\ runMode' = mode
    /\ UNCHANGED <<password, mode, nextId, notBatchVars>>

\* processAllFiles, up to its first await (its button is disabled while
\* processing): without files or without a password it reports that and
\* returns; otherwise every file of the list is taken, whatever its status
ProcessAllFiles ==
    /\ ~processing
    /\ IF Len(files) = 0
       THEN /\ error' = "Please select files to process"
            /\ UNCHANGED <<files, processing, progress, success, updatedFiles,
                           loopI, runMode>>
       ELSE IF password = ""
       THEN /\ error' = "Please enter a password"
            /\ UNCHANGED <<files, processing, progress, success, updatedFiles,
                           loopI, runMode>>
       ELSE /\ processing' = TRUE
            /\ progress' = 0
            /\ error' = ""
            /\ success' = ""
            /\ updatedFiles' = MarkProcessing(files, 1)
            /\ files' = updatedFiles'
            /\ loopI' = 1
            /\ runMode' = mode
    /\ UNCHANGED <<password, mode, nextId, notBatchVars>>

\* the locals of processAllFiles are gone when it has returned
BatchReturns ==
    /\ processing' = FALSE
    /\ updatedFiles' = <<>>
    /\ loopI' = 0
    /\ runMode' = "encrypt"

\* reader.onload of processFile and the continuation of processAllFiles:
\* cipherOk says whether AES.decrypt gave a non-empty text (encryption does
\* not fail); on success the loop goes on to the next file or ends, on
\* failure the catch block reports the error and the loop is left
BatchOnload(cipherOk) ==
    LET totalFiles == Len(updatedFiles)
        done == MarkCompleted(updatedFiles, loopI)
    IN  /\ processing
        /\ IF runMode = "encrypt" \/ cipherOk
           THEN /\ progress' = (loopI * 100) \div totalFiles
                /\ IF loopI < totalFiles
                   THEN /\ updatedFiles' = MarkProcessing(done, loopI + 1)
                        /\ files' = updatedFiles'
                        /\ loopI' = loopI + 1
                        /\ UNCHANGED <<processing, runMode, success>>
                   ELSE /\ files' = done
                        /\ success' = "Successfully processed"
                        /\ BatchReturns
                /\ error' = error
           ELSE /\ error' = "Failed to decrypt file: Invalid password or corrupted file"
                /\ BatchReturns
                /\ UNCHANGED <<files, progress, success>>
        /\ UNCHANGED <<password, mode, nextId, notBatchVars>>

\* reader.onerror of processFile: the promise rejects, the catch block of
\* processAllFiles reports it
BatchOnerror ==
    /\ processing
    /\ error' = "Failed to read file"
    /\ BatchReturns
    /\ UNCHANGED <<files, progress, success, password, mode, nextId, notBatchVars>>

\* ------------------------------------------------- analyzeUrl on chosen URLs
\* host labels and paths the URLs under test are made of
HostLabels == {"tk", "com", "bit", "ly", "1", "aaaa"}
UrlPaths == {"", "/login"}
UrlSchemes == {"", "http://"}
Hosts ==
    UNION {{Join(labels, ".") : labels \in [1..n -> HostLabels]} : n \in 1..MaxLabels}

InitUrlInputs ==
    /\ urlIn \in {scheme \o host \o path :
                      scheme \in UrlSchemes, host \in Hosts, path \in UrlPaths}
    /\ urlOut = NoAnalysis

AnalyzeUrl ==
    /\ urlOut = NoAnalysis
    /\ urlOut' = analyzeUrl(urlIn)
    /\ UNCHANGED <<urlIn, scanVars, notScanVars>>

\* ------------------------------------------- scanFileForThreats on chosen files
\* the words the texts of the files under test are made of
ScanWords ==
    {"hello", "run", "http://192.168.1.1/login", "http://bit.ly/x", "eval(",
     "Private Sub AutoOpen()", "MZ" \o Nop \o Nop}
ScanNames == {"notes.txt", "Setup.EXE"}
ScanTypes == {"text/plain", "", NoType}
\* 50 * 1024 * 1024 bytes and one byte more
ScanSizes == {52428800, 52428801}
ScanFiles ==
    [name : ScanNames, type : ScanTypes, size : ScanSizes,
     words : UNION {[1..n -> ScanWords] : n \in 0..MaxWords}, fill : Fillers]

InitScanInputs ==
    /\ scanFile \in ScanFiles
    /\ scanPc = "idle"
    /\ scanContent = NoContent
    /\ scanResult = NewResults

\* scanFileForThreats(file) up to the await of readFileContent; file.type
\* .startsWith on a file without a type throws inside the promise executor,
\* which rejects the promise
ScanCall ==
    /\ scanPc = "idle"
    /\ IF scanFile.type = NoType
       THEN /\ scanPc' = "caught"
            /\ scanResult' = scanFileForThreats(scanFile,
                   Err("Cannot read properties of undefined (reading 'startsWith')"))
       ELSE /\ scanPc' = "reading"
            /\ UNCHANGED scanResult
    /\ UNCHANGED <<scanFile, scanContent, urlVars, notScanVars>>

\* reader.onload: the promise resolves and the scan runs to its return
ScanOnload ==
    /\ scanPc = "reading"
    /\ scanPc' = "scanned"
    /\ scanContent' = readFileContent(scanFile)
    /\ scanResult' = scanFileForThreats(scanFile, Ok(readFileContent(scanFile)))
    /\ UNCHANGED <<scanFile, urlVars, notScanVars>>

\* reader.onerror: reject(new Error('Failed to read file'))
ScanOnerror ==
    /\ scanPc = "reading"
    /\ scanPc' = "caught"
    /\ scanResult' = scanFileForThreats(scanFile, Err("Failed to read file"))
    /\ UNCHANGED <<scanFile, scanContent, urlVars, notScanVars>>

\* ---------------------------- processFile's name (Dashboard.js 696-703)
\* the page in encrypt mode saves the file under its processed name
NameEncrypt ==
    /\ nameOut.by = "none"
    /\ nameOut' = [by |-> "encrypt", name |-> processedName(nameIn, "encrypt")]
    /\ UNCHANGED <<nameIn, uploadVars, apiVars, coreVars>>

\* the page in decrypt mode is handed the file the encrypt run saved
NameDecrypt ==
    /\ nameOut.by = "encrypt"
    /\ nameOut' = [by |-> "decrypt", name |-> processedName(nameOut.name, "decrypt")]
    /\ UNCHANGED <<nameIn, uploadVars, apiVars, coreVars>>

\* ------------------------------------- FileUpload (Dashboard.js 989-1066)
\* onDrop: the accepted files join the list as pending, each under a new id
UploadOnDrop(n) ==
    /\ upNextId + n - 1 <= MaxUploads
    /\ uploadedFiles' = uploadedFiles \o
           [i \in 1..n |-> [id |-> upNextId + i - 1, status |-> "pending"]]
    /\ upNextId' = upNextId + n
    /\ UNCHANGED <<uploading, uploadProgress, pendingFiles, upI, uploadCalls,
                   nameVars, apiVars, coreVars>>

\* uploadAllFiles up to its first await (the button is disabled while
\* uploading or when no file is pending, line 1118): the flag, the snapshot
\* of the pending files, and uploadFile's start for the first of them
UploadAllFiles ==
    /\ ~uploading
    /\ \E i \in DOMAIN uploadedFiles : uploadedFiles[i].status = "pending"
    /\ uploading' = TRUE
    /\ pendingFiles' = SelectSeq(uploadedFiles, LAMBDA f : f.status = "pending")
    /\ upI' = 1
    /\ uploadProgress' = SetProgress(uploadProgress, pendingFiles'[1].id, 0)
    /\ uploadCalls' = Append(uploadCalls, UploadCall(pendingFiles'[1], uploadedFiles))
    /\ UNCHANGED <<uploadedFiles, upNextId, nameVars, apiVars, coreVars>>

\* the progress callback of the upload under way
UploadProgress(percent) ==
    /\ upI > 0
    /\ uploadProgress' = SetProgress(uploadProgress, pendingFiles[upI].id, percent)
    /\ UNCHANGED <<uploadedFiles, uploading, pendingFiles, upI, upNextId,
                   uploadCalls, nameVars, apiVars, coreVars>>

\* the history entry of the call under way, settled
Settled(ok) ==
    [uploadCalls EXCEPT ![Len(uploadCalls)].outcome = IF ok THEN "ok" ELSE "failed"]

\* a batch that gives up at the first failed upload
UploadSettles_stopsAtFailure(ok) ==
    /\ upI > 0
    /\ uploadedFiles' = SetStatus(uploadedFiles, pendingFiles[upI].id,
                                  IF ok THEN "completed" ELSE "error")
    /\ IF ok /\ upI < Len(pendingFiles)
       THEN /\ upI' = upI + 1
            /\ uploadProgress' =
                   SetProgress(uploadProgress, pendingFiles[upI + 1].id, 0)
            /\ uploadCalls' = Append(Settled(ok),
                   UploadCall(pendingFiles[upI + 1], uploadedFiles'))
            /\ UNCHANGED <<uploading, pendingFiles>>
       ELSE /\ uploading' = FALSE
            /\ pendingFiles' = <<>>
            /\ upI' = 0
            /\ uploadCalls' = Settled(ok)
            /\ UNCHANGED uploadProgress
    /\ UNCHANGED <<upNextId, nameVars, apiVars, coreVars>>

\* filesAPI.uploadFile settles (what it does to the session key and the
\* server is the upload of the transfer model): uploadFile marks the file
\* completed or error and returns, and uploadAllFiles goes on to the next
\* file of its snapshot, or clears the flag after the last
UploadSettles(ok) ==
    /\ upI > 0
    /\ uploadedFiles' = SetStatus(uploadedFiles, pendingFiles[upI].id,
                                  IF ok THEN "completed" ELSE "error")
    /\ IF upI < Len(pendingFiles)
       THEN /\ upI' = upI + 1
            /\ uploadProgress' =
                   SetProgress(uploadProgress, pendingFiles[upI + 1].id, 0)
            /\ uploadCalls' = Append(Settled(ok),
                   UploadCall(pendingFiles[upI + 1], uploadedFiles'))
            /\ UNCHANGED <<uploading, pendingFiles>>
       ELSE /\ uploading' = FALSE
            /\ pendingFiles' = <<>>
            /\ upI' = 0
            /\ uploadCalls' = Settled(ok)
            /\ UNCHANGED uploadProgress
    /\ UNCHANGED <<upNextId, nameVars, apiVars, coreVars>>

\* removeFile(fileId): its button is disabled for status 'uploading' only, a
\* status no file is ever given
UploadRemoveFile(fileId) ==
    /\ \E i \in DOMAIN uploadedFiles : uploadedFiles[i].id = fileId
    /\ uploadedFiles' = SelectSeq(uploadedFiles, LAMBDA f : f.id # fileId)
    /\ uploadProgress' =
           [x \in DOMAIN uploadProgress \ {fileId} |-> uploadProgress[x]]
    /\ UNCHANGED <<uploading, pendingFiles, upI, upNextId, uploadCalls,
                   nameVars, apiVars, coreVars>>

\* clearCompleted (enabled when some file is completed, line 1127)
ClearCompleted ==
    /\ \E i \in DOMAIN uploadedFiles : uploadedFiles[i].status = "completed"
    /\ uploadedFiles' = SelectSeq(uploadedFiles, LAMBDA f : f.status # "completed")
    /\ UNCHANGED <<uploading, uploadProgress, pendingFiles, upI, upNextId,
                   uploadCalls, nameVars, apiVars, coreVars>>

\* ------------- api client (LoadingSpinner.js 132-199, mobile api.js 8-96)
\* a caller issues a request through the api instance: a new config object,
\* without _retry
ApiRequest(r) ==
    /\ reqPc[r] \in {"idle", "resolved", "rejected"}
    /\ reqPc' = [reqPc EXCEPT ![r] = "sent"]
    /\ retry' = [retry EXCEPT ![r] = FALSE]
    /\ sends' = [sends EXCEPT ![r] = 1]
    /\ refreshes' = [refreshes EXCEPT ![r] = 0]
    /\ lastStatus' = [lastStatus EXCEPT ![r] = NoStatus]
    /\ UNCHANGED <<platform, storage, nameVars, uploadVars, coreVars>>

\* an interceptor that forgets to mark the request
ApiResponse_unmarked(r, status) ==
    /\ reqPc[r] \in {"sent", "resent"}
    /\ lastStatus' = [lastStatus EXCEPT ![r] = status]
    /\ IF status = 200
       THEN /\ reqPc' = [reqPc EXCEPT ![r] = "resolved"]
            /\ UNCHANGED <<retry, refreshes>>
       ELSE IF status = 401 /\ ~retry[r]
       THEN /\ UNCHANGED retry
            /\ IF storage.refresh
               THEN /\ reqPc' = [reqPc EXCEPT ![r] = "refreshing"]
                    /\ refreshes' = [refreshes EXCEPT ![r] = @ + 1]
               ELSE /\ reqPc' = [reqPc EXCEPT ![r] = "rejected"]
                    /\ UNCHANGED refreshes
       ELSE /\ reqPc' = [reqPc EXCEPT ![r] = "rejected"]
            /\ UNCHANGED <<retry, refreshes>>
    /\ UNCHANGED <<platform, storage, sends, nameVars, uploadVars, coreVars>>

\* the response interceptor on a response to the request or to its re-send:
\* a success goes to the caller; a 401 on a request not yet marked marks it
\* and, with a refresh token in the store, posts /auth/refresh with plain
\* axios; everything else is rejected to the caller
ApiResponse(r, status) ==
    /\ reqPc[r] \in {"sent", "resent"}
    /\ lastStatus' = [lastStatus EXCEPT ![r] = status]
    /\ IF status = 200
       THEN /\ reqPc' = [reqPc EXCEPT ![r] = "resolved"]
            /\ UNCHANGED <<retry, refreshes>>
       ELSE IF status = 401 /\ ~retry[r]
       THEN /\ retry' = [retry EXCEPT ![r] = TRUE]
            /\ IF storage.refresh
               THEN /\ reqPc' = [reqPc EXCEPT ![r] = "refreshing"]
                    /\ refreshes' = [refreshes EXCEPT ![r] = @ + 1]
               ELSE /\ reqPc' = [reqPc EXCEPT ![r] = "rejected"]
                    /\ UNCHANGED refreshes
       ELSE /\ reqPc' = [reqPc EXCEPT ![r] = "rejected"]
            /\ UNCHANGED <<retry, refreshes>>
    /\ UNCHANGED <<platform, storage, sends, nameVars, uploadVars, coreVars>>

\* the refresh call settles: on success the new access token is stored and
\* the request is sent again through the api instance; on failure the web
\* client removes both tokens and rejects, the mobile client logs and rejects
RefreshSettles(r, ok) ==
    /\ reqPc[r] = "refreshing"
    /\ IF ok
       THEN /\ storage' = [storage EXCEPT !.access = TRUE]
            /\ sends' = [sends EXCEPT ![r] = @ + 1]
            /\ reqPc' = [reqPc EXCEPT ![r] = "resent"]
       ELSE /\ storage' = IF platform = "web" THEN NoTokens ELSE storage
            /\ reqPc' = [reqPc EXCEPT ![r] = "rejected"]
            /\ UNCHANGED sends
    /\ UNCHANGED <<platform, retry, refreshes, lastStatus, nameVars, uploadVars,
                   coreVars>>

\* a login stores both tokens (localStorage.setItem, AsyncStorage.setItem)
StoreTokens ==
    /\ storage' = [access |-> TRUE, refresh |-> TRUE]
    /\ storage' # storage
    /\ UNCHANGED <<platform, reqPc, retry, sends, refreshes, lastStatus,
                   nameVars, uploadVars, coreVars>>

\* a logout removes them
RemoveTokens ==
    /\ storage' = NoTokens
    /\ storage' # storage
    /\ UNCHANGED <<platform, reqPc, retry, sends, refreshes, lastStatus,
                   nameVars, uploadVars, coreVars>>

\* ---------------------------------------------------------- specifications
Next ==
    \/ GetSessionKey
    \/ ResetSessionKey
    \/ \E x \in FormValues, k \in KeyInputs : CreateEncryptedPayload(x, k)
    \/ \E x \in FormValues : EncryptFormData(x)
    \/ \E f \in SessionFiles : EncryptFileCall(f)
    \/ \E c \in BagToSet(calls) : ReaderOnload(c, FALSE)
    \/ \E c \in BagToSet(calls) : ReaderOnerror(c)
    \/ \E k \in KeyInputs, g \in GarbageOutcomes : DecryptFile(k, g)

Spec == Init /\ [][Next]_vars

\* calls that can fail, with the session key coming and going beside them
NextFail ==
    \/ ResetSessionKey
    \/ \E f \in SessionFiles : EncryptFileCall(f)
    \/ \E c \in BagToSet(calls) : ReaderOnload(c, FALSE)
    \/ \E c \in BagToSet(calls) : ReaderOnerror(c)
    \/ \E k \in KeyInputs, g \in GarbageOutcomes : DecryptFile(k, g)
    \/ \E d \in BOOLEAN, k \in KeyInputs, g \in GarbageOutcomes :
           DecryptDataCall(d, k, g)
    \/ \E d \in BOOLEAN, k \in KeyInputs, g \in GarbageOutcomes :
           DecryptApiResponseCall(d, k, g)

SpecFail == Init /\ [][NextFail]_vars

\* login and logout, with getSessionKey and encryptFile running beside them
NextAuth ==
    \/ \E x \in FormValues : LoginCall(x)
    \/ \E ok \in BOOLEAN : LoginResume(ok)
    \/ LogoutCall
    \/ \E ok \in BOOLEAN, toastDefined \in BOOLEAN : LogoutResume(ok, toastDefined)
    \/ GetSessionKey
    \/ \E f \in Files : EncryptFileCall(f)
    \/ \E c \in BagToSet(calls) : ReaderOnload(c, FALSE)

SpecAuth == Init /\ [][NextAuth]_vars

\* upload and download of encrypted files
NextXfer ==
    \/ \E f \in Files : UploadFileCall(f)
    \/ \E c \in BagToSet(calls), stored \in BOOLEAN : ReaderOnload(c, stored)
    \/ \E c \in BagToSet(calls) : ReaderOnerror(c)
    \/ \E f \in Files, responded \in BOOLEAN, g \in GarbageOutcomes :
           DownloadFile(f, responded, g)
    \/ GetSessionKey
    \/ ResetSessionKey

SpecXfer == Init /\ [][NextXfer]_vars

\* the offline encryption page
NextBatch ==
    \/ OnDrop
    \/ \E id \in 1..MaxDrops : RemoveFile(id)
    \/ ClearAll
    \/ \E p \in {"", "pw"} : SetPassword(p)
    \/ \E m \in {"encrypt", "decrypt"} : SetMode(m)
    \/ ProcessAllFiles
    \/ \E cipherOk \in BOOLEAN : BatchOnload(cipherOk)
    \/ BatchOnerror

SpecBatch == Init /\ [][NextBatch]_vars

\* the FileReader of processFile fires onload or onerror for every read
BatchSettles ==
    \/ \E cipherOk \in BOOLEAN : BatchOnload(cipherOk)
    \/ BatchOnerror

SpecBatchFair == Init /\ [][NextBatch]_vars /\ WF_vars(BatchSettles)

\* analyzeUrl applied to every URL of the bounded set
InitUrlSpec == InitCrypto /\ InitBatch /\ InitScan /\ InitUrlInputs /\ InitPage

NextUrl == AnalyzeUrl

SpecUrl == InitUrlSpec /\ [][NextUrl]_vars

\* scanFileForThreats applied to every file of the bounded set
InitScanSpec == InitCrypto /\ InitBatch /\ InitScanInputs /\ InitUrl /\ InitPage

NextScan ==
    \/ ScanCall
    \/ ScanOnload
    \/ ScanOnerror

SpecScan == InitScanSpec /\ [][NextScan]_vars

\* the codec functions applied to every input of the bounded sets
InitCodecSpec ==
    /\ InitKeys /\ InitEnv /\ InitAuth /\ InitXfer /\ InitCodecInputs
    /\ InitBatch /\ InitScan /\ InitUrl /\ InitPage

NextCodec ==
    \/ CodecWrap
    \/ CodecEncrypt
    \/ CodecPlain
    \/ CodecCorrupt
    \/ CodecUnwrap
    \/ CodecDecrypt

SpecCodec == InitCodecSpec /\ [][NextCodec]_vars

\* processedName applied to every name of the bounded set, one way and back
InitNameSpec ==
    /\ InitCrypto /\ InitBatch /\ InitScan /\ InitUrl
    /\ InitNameInputs /\ InitUpload /\ InitApi

NextName ==
    \/ NameEncrypt
    \/ NameDecrypt

SpecName == InitNameSpec /\ [][NextName]_vars

\* the upload page
NextUpload ==
    \/ \E n \in 1..MaxUploads : UploadOnDrop(n)
    \/ UploadAllFiles
    \/ \E percent \in {50, 100} : UploadProgress(percent)
    \/ \E ok \in BOOLEAN : UploadSettles(ok)
    \/ \E fileId \in 1..MaxUploads : UploadRemoveFile(fileId)
    \/ ClearCompleted

\* every request filesAPI.uploadFile makes settles: the api instance gives a
\* request 30 seconds (timeout: 30000)
SpecUpload ==
    Init /\ [][NextUpload]_vars /\ WF_vars(\E ok \in BOOLEAN : UploadSettles(ok))

\* one request after another through the api instance of either client
InitApiSpec ==
    /\ InitCrypto /\ InitBatch /\ InitScan /\ InitUrl
    /\ InitName /\ InitUpload /\ InitApiInputs

NextApi ==
    \/ \E r \in Requests : ApiRequest(r)
    \/ \E r \in Requests, status \in Statuses : ApiResponse(r, status)
    \/ \E r \in Requests, ok \in BOOLEAN : RefreshSettles(r, ok)
    \/ StoreTokens
    \/ RemoveTokens

SpecApi == InitApiSpec /\ [][NextApi]_vars

\* =================================================================== claims
\* C1: between two resets every getSessionKey() call returns the same key,
\* whatever else (wrap, encryptFile, decrypt, failing calls) runs in between
C1_SessionKeyStable ==
    /\ \A a, b \in getsSinceReset : a = b
    /\ getsSinceReset \subseteq {sessionKey}

\* two or more calls since the last reset, with a keyless wrap and a failed
\* decryptFile in the run
C1_Witness ==
    /\ getCount = 2
    /\ getsSinceReset = {sessionKey}
    /\ lastEnv.op = "createEncryptedPayload" /\ Falsy(lastEnv.keyArg)
    /\ lastResult.op = "decryptFile" /\ ~lastResult.ok

\* C2: resetSessionKey() leaves the key absent, and no key getSessionKey()
\* returns after a reset was returned before that reset
C2_ResetThenFreshKey ==
    [][ /\ ResetSessionKey => sessionKey' = Null
        /\ getsSinceReset' \cap oldGets' = {} ]_vars

\* a key was returned, the key was reset, and a new key has been returned
C2_Witness ==
    /\ oldGets # {}
    /\ getsSinceReset # {}
    /\ sessionKey \in getsSinceReset \ oldGets

\* a createEncryptedPayload call with the key omitted
KeylessWrapStep == \E x \in FormValues : CreateEncryptedPayload(x, Null)

\* C5 as stated: a keyless createEncryptedPayload encrypts with the session
\* key, so its envelope's key is what getSessionKey() returns right after it
C5_KeylessWrapUsesSessionKey ==
    [][ KeylessWrapStep =>
            lastEnv'.env.key = getSessionKey(sessionKey', nextKey') ]_vars

\* C5 amended: a keyless createEncryptedPayload encrypts with a key it
\* generates for this one envelope; it neither reads nor creates the session
\* key, the envelope's key is not what getSessionKey() returns afterwards nor
\* any key it returned before, and two keyless wraps carry different keys
C5_KeylessWrapUsesOneOffKey ==
    [][ KeylessWrapStep =>
          /\ lastEnv'.env.key = generateEncryptionKey(nextKey)
          /\ lastEnv'.env.encryptedData
                 = encryptData(lastEnv'.data, lastEnv'.env.key).ct
          /\ sessionKey' = sessionKey
          /\ lastEnv'.env.key # getSessionKey(sessionKey', nextKey')
          /\ lastEnv'.env.key \notin getsSinceReset \cup oldGets
          /\ (lastEnv.op = "createEncryptedPayload" /\ Falsy(lastEnv.keyArg))
                 => lastEnv'.env.key # lastEnv.env.key ]_vars

\* a keyless wrap made while a session key exists
C5_Witness ==
    /\ lastEnv.op = "createEncryptedPayload"
    /\ lastEnv.keyArg = Null
    /\ sessionKey # Null
    /\ lastEnv.env.key # sessionKey

\* C7: every envelope of createEncryptedPayload, encryptFormData and
\* encryptFile carries in its key field the key its ciphertext was made with
C7_EnvelopeKeyPairsCiphertext ==
    lastEnv.op # "none" =>
        /\ lastEnv.env.encryptedData.kind = "aes"
        /\ lastEnv.env.encryptedData.key = lastEnv.env.key

\* an encryptFile envelope whose call started under one session key and
\* completed after a reset, under another
C7_Witness ==
    /\ lastEnv.op = "encryptFile"
    /\ lastEnv.keyArg # Null
    /\ lastEnv.env.key # lastEnv.keyArg
    /\ lastEnv.env.encryptedData.key = lastEnv.env.key

\* C3: whenever logout() ends, resolved or rejected, after a backend request
\* that succeeded or failed, the session key has been reset and is absent
C3_LogoutDestroysKey ==
    [][ (logoutPc = "awaiting" /\ logoutPc' \in {"resolved", "rejected"})
            => (sessionKey' = Null /\ getsSinceReset' = {}) ]_vars

\* a logout whose backend request failed has ended; the key that existed
\* before is gone
C3_Witness ==
    /\ logoutPc \in {"resolved", "rejected"}
    /\ ~logoutBackendOk
    /\ oldGets # {}
    /\ sessionKey = Null

\* the wrapped value is a JSON value and the envelope reached the unwrap intact
CodecWrapped ==
    /\ cout.op = "decryptApiResponse"
    /\ cenv.encryptedData.kind = "aes"
    /\ cin.x \in JSONValues

\* C4: decryptApiResponse(createEncryptedPayload(x, k), k) = x for every JSON
\* value x and every non-empty key k
C4_WrapUnwrapRoundTrip ==
    (CodecWrapped /\ ~Falsy(cin.kw) /\ cin.kd = cin.kw)
        => (cout.ok /\ cout.val = cin.x)

\* the string "null" went through wrap and unwrap and came back as a string
C4_Witness ==
    /\ CodecWrapped /\ ~Falsy(cin.kw) /\ cin.kd = cin.kw
    /\ cin.x = VStr("null")
    /\ cout.ok /\ cout.val = VStr("null")

\* C6 as stated: decryptApiResponse(createEncryptedPayload(x)) with no key
\* argument returns x
C6_UnwrapWithoutKey ==
    (CodecWrapped /\ cin.kw = Null /\ cin.kd = Null)
        => (cout.ok /\ cout.val = cin.x)

\* C6 amended: decryptApiResponse(env, k) of env = createEncryptedPayload(x)
\* returns x when the caller passes the envelope's own key field as k; called
\* with no key argument it throws 'Failed to decrypt data'
C6_UnwrapNeedsEnvelopeKey ==
    (CodecWrapped /\ cin.kw = Null) =>
        /\ cin.kd = cenv.key => (cout.ok /\ cout.val = cin.x)
        /\ cin.kd = Null =>
              (~cout.ok /\ cout.val = Err("Failed to decrypt data").val)

\* a keyless wrap unwrapped with the key taken from its envelope
C6_Witness ==
    /\ CodecWrapped /\ cin.kw = Null
    /\ cin.kd = cenv.key
    /\ cin.x = VStr("secret")
    /\ cout.ok /\ cout.val = cin.x

\* C11: for every payload whose encryptedData field is missing or empty, and
\* for every key argument (none included), decryptApiResponse returns the
\* payload itself and raises no error; nothing is decrypted
C11_PlainResponsePassesThrough ==
    (cout.op = "decryptApiResponse" /\ FalsyCt(cenv.encryptedData))
        => (cout.ok /\ cout.val = cenv)

\* a payload with an empty encryptedData field went through decryptApiResponse
\* with no key and came back as it was
C11_Witness ==
    /\ cout.op = "decryptApiResponse"
    /\ cenv.encryptedData = EmptyCt /\ cenv.version = "1.0"
    /\ cin.kd = Null
    /\ cout.ok /\ cout.val = cenv

\* C12 as stated: an encryptFile call invoked while key K was the session key
\* completes with K, also when resetSessionKey() ran while the file was being
\* read; its envelope never carries a key generated after the reset
C12_InFlightKeepsCallKey ==
    (lastEnv.op = "encryptFile" /\ ~Falsy(lastEnv.keyArg)) =>
        /\ lastEnv.env.key = lastEnv.keyArg
        /\ lastEnv.env.encryptedData.key = lastEnv.keyArg

\* an encrypt operation that started while no session key existed completes,
\* and no key has been destroyed since it started
KeylessStartCompletes ==
    \/ \E c \in BagToSet(calls) :
          /\ ReaderOnload(c, FALSE)
          /\ c.keyAtCall = Null /\ ~c.resetSeen
    \/ sessionKey = Null /\ \E x \in FormValues : EncryptFormData(x)

\* C13: encrypt operations (encryptFile, encryptFormData) started while no
\* session key exists, completing in any order with no reset in between, all
\* use one and the same key: each uses the key that is current when it
\* completes, that key is the only one getSessionKey returned since the last
\* reset and the key of the envelope made before it in that period, and a key
\* is generated only if none was generated since the last reset
C13_ReentrantGetSharesKey ==
    [][ KeylessStartCompletes =>
          /\ lastEnv'.env.key = sessionKey'
          /\ lastEnv'.env.encryptedData.key = sessionKey'
          /\ getsSinceReset' = {sessionKey'}
          /\ nextKey' # nextKey => (getsSinceReset = {} /\ nextKey' = nextKey + 1)
          /\ (/\ lastEnv.op \in {"encryptFile", "encryptFormData"}
              /\ lastEnv.env.key \in getsSinceReset)
                 => lastEnv'.env.key = lastEnv.env.key ]_vars

\* an encryptFile call that started while no key existed has completed with
\* no reset in between; it did not generate the key it used, another
\* operation that completed before it had, and a third one is still pending
C13_Witness ==
    /\ lastEnv.op = "encryptFile"
    /\ lastEnv.keyArg = Null /\ lastEnv.joined
    /\ lastEnv.env.key = sessionKey
    /\ \E c \in BagToSet(calls) : c.keyAtCall = Null /\ ~c.resetSeen

\* a call of decryptData, decryptApiResponse, decryptFile or encryptFile ends
\* in an error
FailingCall ==
    \/ /\ ~lastResult'.ok
       /\ \E d \in BOOLEAN, k \in KeyInputs, g \in GarbageOutcomes :
              \/ DecryptDataCall(d, k, g)
              \/ DecryptApiResponseCall(d, k, g)
              \/ DecryptFile(k, g)
    \/ \E c \in BagToSet(calls) : ReaderOnerror(c)

\* C14: when decryptData, decryptApiResponse, decryptFile or encryptFile ends
\* in an error (wrong key, damaged ciphertext, failed file read), the session
\* key is what it was before the call: the same key, or still absent
C14_FailureKeepsSessionKey ==
    [][ FailingCall =>
          /\ sessionKey' = sessionKey
          /\ getsSinceReset' = getsSinceReset
          /\ nextKey' = nextKey ]_vars

\* an encryptFile call has failed on the file read while a session key
\* existed, and the key is still there
C14_Witness ==
    /\ lastResult.op = "encryptFile" /\ ~lastResult.ok
    /\ lastResult.val = Err("Failed to read file").val
    /\ sessionKey # Null
    /\ getsSinceReset = {sessionKey}

\* the status of the file with this id in a list ("none" when it is not there)
StatusIn(list, id) ==
    IF id \in Ids(list)
    THEN list[CHOOSE n \in DOMAIN list : list[n].id = id].status
    ELSE "none"

\* C15 as stated: the status of a file of the offline list only moves from
\* pending to processing and from processing to completed or error; a file
\* that is completed or error keeps that status, also when processAllFiles
\* runs again
C15_StatusOnlyMovesForward ==
    [][ \A id \in 1..MaxDrops :
          LET before == StatusIn(files, id)
              after == StatusIn(files', id)
          IN  (before # "none" /\ after # "none" /\ after # before) =>
                  <<before, after>> \in {<<"pending", "processing">>,
                                         <<"processing", "completed">>,
                                         <<"processing", "error">>} ]_vars

\* C16 as stated: every file the batch moves to processing ends as completed
\* or error, so that once the batch run has ended no file of the list is in
\* processing
C16_NoFileLeftProcessing ==
    ~processing => \A n \in DOMAIN files : files[n].status # "processing"

\* C19 as stated: no rule of analyzeUrl lowers the risk an earlier rule set,
\* so a URL with a suspicious top-level domain or a dotted IPv4 host ends at
\* high whatever other rules match
C19_HighRuleEndsHigh ==
    (\/ "Suspicious top-level domain" \in Range(urlOut.reasons)
     \/ "Uses IP address instead of domain" \in Range(urlOut.reasons))
        => urlOut.risk = "high"

\* C17: a result returned on the non-error path has risk high exactly when its
\* score is at least 50, medium exactly when it is at least 20 and below 50,
\* low exactly when it is below 20 (19 is low, 20 and 49 medium, 50 high),
\* and a returned result has risk unknown exactly on the error path.
C17_RiskFollowsScore ==
    /\ scanPc = "scanned" =>
           /\ scanResult.risk = "high" <=> scanResult.score >= 50
           /\ scanResult.risk = "medium" <=>
                  (20 <= scanResult.score /\ scanResult.score < 50)
           /\ scanResult.risk = "low" <=> scanResult.score < 20
    /\ scanPc \in {"scanned", "caught"} =>
           (scanResult.risk = "unknown" <=> scanPc = "caught")
    /\ <<RiskOf(19), RiskOf(20), RiskOf(49), RiskOf(50)>>
           = <<"low", "medium", "medium", "high">>

\* a scan that ended on the boundary score 50
C17_Witness ==
    /\ scanPc = "scanned"
    /\ scanResult.score = 50
    /\ scanResult.risk = "high"

\* C18: when reading the file fails or a step of the scan raises, the scan
\* still returns: a result with risk unknown, no threats, no warnings, score 0
\* and a non-empty error string; a scan that ran through carries no error.
C18_FailureGivesUnknownResult ==
    /\ scanPc = "caught" =>
           /\ scanResult.risk = "unknown"
           /\ scanResult.threats = <<>>
           /\ scanResult.warnings = <<>>
           /\ scanResult.score = 0
           /\ scanResult.error # ""
    /\ scanPc = "scanned" =>
           /\ scanResult.risk \in {"low", "medium", "high"}
           /\ scanResult.error = ""

\* the read of a file with a suspicious name and text has failed
C18_Witness ==
    /\ scanPc = "caught"
    /\ scanFile.type # NoType
    /\ scanFile.name = "Setup.EXE"
    /\ scanFile.words # <<>>
    /\ scanResult.error = "Failed to scan file: Failed to read file"

\* C20 as stated: the scan of a readable file whose text contains
\* http://192.168.1.1/login returns a phishing_url threat for that URL and
\* the overall risk high.
C20_PhishingLinkIsHighRisk ==
    (scanPc = "scanned" /\ "http://192.168.1.1/login" \in Range(scanFile.words)) =>
        /\ \E n \in DOMAIN scanResult.threats :
               /\ scanResult.threats[n].type = "phishing_url"
               /\ scanResult.threats[n].subject = "http://192.168.1.1/login"
        /\ scanResult.risk = "high"

\* the number of elements of a sequence of findings that have one of the types
CountTypes(findings, types) ==
    Cardinality({n \in DOMAIN findings : findings[n].type \in types})

PatternTypes ==
    {"encoded_content", "executable_content", "suspicious_formatting", "high_entropy"}

\* C21: on the non-error path the score is exactly 30 for a dangerous
\* extension, 25 for each high URL, 10 for each medium URL, 40 for detected
\* macros, 20 for each high-severity and 5 for each medium-severity pattern
\* finding and 5 for a size above 50 MiB, each check counted whatever the
\* checks before it found, and every counted finding is in the result.
C21_ScoreIsSumOfAllChecks ==
    scanPc = "scanned" =>
        LET urls == extractUrls(scanContent.text)
            Urls(risk) == Cardinality({n \in DOMAIN urls : analyzeUrl(urls[n]).risk = risk})
            patterns == detectSuspiciousPatterns(scanContent)
            Patterns(high) ==
                Cardinality({n \in DOMAIN patterns : (patterns[n].severity = "high") = high})
            ext == IF \E n \in DOMAIN suspiciousExtensions :
                         EndsWith(toLowerCase(scanFile.name), suspiciousExtensions[n])
                   THEN 1 ELSE 0
            macros == IF detectMacros(scanContent, toLowerCase(scanFile.name)).hasMacros
                      THEN 1 ELSE 0
            large == IF scanFile.size > 52428800 THEN 1 ELSE 0
        IN  /\ scanResult.score =
                   30 * ext + 25 * Urls("high") + 10 * Urls("medium") + 40 * macros
                   + 20 * Patterns(TRUE) + 5 * Patterns(FALSE) + 5 * large
            /\ Len(scanResult.threats) = ext + Urls("high") + macros + Patterns(TRUE)
            /\ Len(scanResult.warnings) = Urls("medium") + Patterns(FALSE) + large

\* a scan in which the name, URL, macro, pattern and size checks all found
\* something
C21_Witness ==
    /\ scanPc = "scanned"
    /\ \A type \in {"suspicious_extension", "phishing_url", "macro_malware"} :
           CountTypes(scanResult.threats, {type}) = 1
    /\ \A type \in {"suspicious_formatting", "large_file"} :
           CountTypes(scanResult.warnings, {type}) = 1
    /\ scanResult.score = 105

\* C22: however many VBA markers and macro keywords match, the result holds at
\* most one macro_malware threat, which is there exactly when something
\* matches and then accounts for exactly 40 of the score; a text containing
\* "Private Sub AutoOpen()" yields the threat and a score of at least 40.
C22_OneMacroThreatWorth40 ==
    scanPc = "scanned" =>
        LET macros == CountTypes(scanResult.threats, {"macro_malware"})
            matches ==
                \/ \E n \in DOMAIN macroKeywords :
                       Includes(toLowerCase(scanContent.text), macroKeywords[n])
                \/ \E p \in {"Sub ", "Function ", "Private Sub", "Public Sub"} :
                       Includes(scanContent.text, p)
        IN  /\ macros = IF matches THEN 1 ELSE 0
            /\ scanResult.score =
                   40 * macros
                   + 30 * CountTypes(scanResult.threats, {"suspicious_extension"})
                   + 25 * CountTypes(scanResult.threats, {"phishing_url"})
                   + 20 * CountTypes(scanResult.threats, PatternTypes)
                   + 10 * CountTypes(scanResult.warnings, {"suspicious_url"})
                   + 5 * CountTypes(scanResult.warnings, PatternTypes \cup {"large_file"})
            /\ Includes(scanContent.text, "Private Sub AutoOpen()") =>
                   macros = 1 /\ scanResult.score >= 40

\* the text "Private Sub AutoOpen() run" has been scanned: three markers and
\* keywords match, the macro threat is the only finding
C22_Witness ==
    /\ scanPc = "scanned"
    /\ scanFile.words = <<"Private Sub AutoOpen()", "run">>
    /\ CountTypes(scanResult.threats, {"macro_malware"}) = 1
    /\ scanResult.score = 40

\* the words of the texts under test that are plain prose
ProseWords == {"hello", "run"}

\* C23 as stated: a .txt file of at most 50 MiB that holds only prose and no
\* URL is scanned to no threats, no warnings, score 0 and risk low.
C23_CleanTextScansClean ==
    (/\ scanPc = "scanned"
     /\ scanFile.name = "notes.txt"
     /\ scanFile.type = "text/plain"
     /\ scanFile.size <= 52428800
     /\ scanFile.fill = NoFill
     /\ Range(scanFile.words) \subseteq ProseWords
     /\ extractUrls(scanContent.text) = <<>>) =>
        /\ scanResult.threats = <<>>
        /\ scanResult.warnings = <<>>
        /\ scanResult.score = 0
        /\ scanResult.risk = "low"

\* a is b with some characters left out
RECURSIVE IsSubsequence(_, _)
IsSubsequence(a, b) ==
    IF a = "" THEN TRUE
    ELSE IF b = "" THEN FALSE
    ELSE IF Head(a) = Head(b) THEN IsSubsequence(Tail(a), Tail(b))
    ELSE IsSubsequence(a, Tail(b))

\* C25: the text extracted on the non-text path is made of bytes of the
\* first 10000 of the file only, holds none but the values 32..126, 10 and
\* 13, in the order of the file, and is no longer than the file or 10000.
C25_BinaryExtractionIsBounded ==
    (scanPc = "scanned" /\ ~IsTextFile(scanFile)) =>
        LET text == Join(scanFile.words, " ")
        IN  /\ IsSubsequence(scanContent.text, text)
            /\ Chars(scanContent.text) \cap {Nop, "\t", "\f"} = {}
            /\ scanContent.fill.ascii
            /\ scanContent.fill.symbols <= 97
            /\ scanContent.fill.chars <= scanFile.fill.chars
            /\ ByteLength(text) + scanContent.fill.bytes <= 10000
            /\ Len(scanContent.text) + scanContent.fill.chars
                   <= Min(FileBytes(scanFile), 10000)

\* a file of more than 10000 bytes was read on the non-text path and the
\* extraction stopped at the 10000th byte, two of them not kept
C25_Witness ==
    /\ scanPc = "scanned"
    /\ ~IsTextFile(scanFile)
    /\ FileBytes(scanFile) > 10000
    /\ Nop \in Chars(Join(scanFile.words, " "))
    /\ Len(scanContent.text) + scanContent.fill.chars < 10000
    /\ ByteLength(Join(scanFile.words, " ")) + scanContent.fill.bytes = 10000

\* C28: in a returned result every threat has severity high, every warning
\* severity medium or low, and no finding is in both lists.
C28_SeverityPartition ==
    scanPc \in {"scanned", "caught"} =>
        /\ \A n \in DOMAIN scanResult.threats : scanResult.threats[n].severity = "high"
        /\ \A n \in DOMAIN scanResult.warnings :
               scanResult.warnings[n].severity \in {"medium", "low"}
        /\ Range(scanResult.threats) \cap Range(scanResult.warnings) = {}

\* a result with findings of all three severities
C28_Witness ==
    /\ scanPc = "scanned"
    /\ scanResult.threats # <<>>
    /\ \E n \in DOMAIN scanResult.warnings : scanResult.warnings[n].severity = "medium"
    /\ \E n \in DOMAIN scanResult.warnings : scanResult.warnings[n].severity = "low"

\* C29: a scan through the non-text path never reports an executable_content
\* threat nor a high_entropy warning.
C29_BinaryPathFindings ==
    (scanPc = "scanned" /\ ~IsTextFile(scanFile)) =>
        /\ CountTypes(scanResult.threats, {"executable_content"}) = 0
        /\ CountTypes(scanResult.warnings, {"high_entropy"}) = 0

\* a file with the MZ and 0x90 0x90 marks and a filler of 250 different
\* characters has been scanned through the non-text path
C29_Witness ==
    /\ scanPc = "scanned"
    /\ ~IsTextFile(scanFile)
    /\ Includes(Join(scanFile.words, " "), "MZ" \o Nop \o Nop)
    /\ scanFile.fill = Noise
    /\ scanContent.text = "MZ"

\* C24 as stated: the encrypted file's name is the original name with
\* '.encrypted' appended, and the decrypt run gives back the original name,
\* for every name, also one that already contains '.encrypted'
C24_NameRoundTrip ==
    /\ nameOut.by = "encrypt" => nameOut.name = nameIn \o ".encrypted"
    /\ nameOut.by = "decrypt" => nameOut.name = nameIn

\* the ids filesAPI.uploadFile was called with, in a history of calls
CalledIds(log) == {log[n].id : n \in DOMAIN log}

\* what the history of uploads may hold at any time: only files that were
\* pending, each at most once, and a settled call that left its file
\* completed after a success and error after a failure (when the file has
\* not been removed from the list since)
UploadsInOrder ==
    /\ \A n \in DOMAIN uploadCalls :
        /\ uploadCalls[n].status = "pending"
        /\ uploadCalls[n].listed \in {"pending", "removed"}
        /\ uploadCalls[n].outcome = "ok" =>
               ListedStatus(uploadedFiles, uploadCalls[n].id) \in {"completed", "removed"}
        /\ uploadCalls[n].outcome = "failed" =>
               ListedStatus(uploadedFiles, uploadCalls[n].id) \in {"error", "removed"}
    /\ \A n, k \in DOMAIN uploadCalls :
        uploadCalls[n].id = uploadCalls[k].id => n = k

\* the step that ends a batch: every file of its snapshot has been uploaded
\* and every upload has settled
BatchEndsComplete ==
    (uploading /\ ~uploading') =>
        /\ \A n \in DOMAIN pendingFiles : pendingFiles[n].id \in CalledIds(uploadCalls')
        /\ \A n \in DOMAIN uploadCalls' : uploadCalls'[n].outcome # "inflight"

RefreshBounded ==
    \A r \in Requests :
        /\ refreshes[r] <= 1
        /\ sends[r] <= 1 + refreshes[r]

\* the steps that end in rejection: a 401 on the re-sent request, a 401
\* with no refresh token in the store, a refresh that is not followed by
\* the re-send; none of them refreshes or sends anything
RejectionSteps ==
    \A r \in Requests :
        /\ (reqPc[r] = "resent" /\ reqPc'[r] # "resent" /\ lastStatus'[r] = 401) =>
               /\ reqPc'[r] = "rejected"
               /\ refreshes'[r] = refreshes[r] /\ sends'[r] = sends[r]
        /\ (reqPc[r] = "sent" /\ reqPc'[r] # "sent" /\ lastStatus'[r] = 401
                /\ ~storage.refresh) =>
               /\ reqPc'[r] = "rejected"
               /\ refreshes'[r] = refreshes[r] /\ sends'[r] = sends[r]
        /\ (reqPc[r] = "refreshing" /\ reqPc'[r] # "refreshing"
                /\ sends'[r] = sends[r]) =>
               /\ reqPc'[r] = "rejected"
               /\ refreshes'[r] = refreshes[r]

\* C27: for every request the response interceptor refreshes the token at
\* most once and sends the request again at most once; a 401 on the
\* re-sent request, a missing refresh token and a failed refresh end in
\* rejection to the caller.
C27_BoundedRefresh ==
    /\ []RefreshBounded
    /\ [][RejectionSteps]_vars

\* a request got a 401, the token was refreshed, the request was sent
\* again, got a 401 again and was rejected
C27_Witness ==
    \E r \in Requests :
        /\ reqPc[r] = "rejected"
        /\ lastStatus[r] = 401
        /\ refreshes[r] = 1
        /\ sends[r] = 2

\* a step taken without files or without a password leaves processing
\* false and changes the status of no file
NothingToProcess ==
    (~processing /\ (Len(files) = 0 \/ password = "")) =>
        /\ ~processing'
        /\ \A id \in Ids(files) \cap Ids(files') :
               StatusIn(files', id) = StatusIn(files, id)

\* C30: every run of processAllFiles that has set processing ends with
\* processing false, and a call without files or without a password changes
\* no file's status and leaves processing false.
C30_BatchTerminates ==
    /\ processing ~> ~processing
    /\ [][NothingToProcess]_vars

\* a run over two files has ended with a read error at its second file
C30_Witness ==
    /\ ~processing
    /\ error = "Failed to read file"
    /\ Len(files) = 2
    /\ files[1].status = "completed"
    /\ files[2].status = "processing"

\* C8 as stated: decryptData(encryptData(p, k1), k2) with k1 # k2, and
\* decryptData of a damaged ciphertext, end in an error and return no value
C8_WrongKeyFails ==
    (/\ cout.op = "decryptData"
     /\ cin.kd # cin.kw \/ cenv.encryptedData.kind = "corrupt")
        => ~cout.ok

\* C10 as stated: downloadFile of an uploaded file returns the content that
\* was read from the file when it was uploaded
C10_DownloadReturnsOriginal ==
    lastDownload.responded =>
        /\ lastDownload.res.ok
        /\ lastDownload.res.val = DataURL(lastDownload.file)

\* C9 as stated: decryptFile of an encryptFile envelope returns the content
\* read from the file under the envelope's key and fails under any other key
C9_FileRoundTrip ==
    (lastEnv.op = "encryptFile" /\ lastResult.op = "decryptFile") =>
        IF lastResult.key = lastEnv.env.key
        THEN lastResult.ok /\ lastResult.val = lastEnv.data
        ELSE ~lastResult.ok
====
